---------------------------- MODULE Spec2Model ----------------------------
(* Sentinel command-interception gateway: the HTTP front door                *)
(* (sentinel_server.py), the Runtime (src/sentinel/main.py), the Command     *)
(* Auditor (src/sentinel/command_auditor.py), the Policy Rule Engine         *)
(* (src/sentinel/policy.py), the Semantic Auditor                            *)
(* (src/sentinel/sentinel_auditor.py) and the Approval Store                 *)
(* (sentinel_approvals.py, sentinel_db.py).                                  *)
(*                                                                           *)
(* A Python str is modelled as a sequence of Unicode code points (naturals), *)
(* so that chr(int(h, 16)), the escape decoders and the regular expressions  *)
(* of the Normalizer are computed on characters exactly as the code does.    *)
EXTENDS Integers, Sequences, FiniteSets, TLC

\* Python's None, and the marker of a raised (uncaught) exception.
None == "None"
Raised == "Raised"

-----------------------------------------------------------------------------
(* Characters and strings                                                    *)

\* ord() of the printable ASCII characters, to write string literals readably.
Ord ==
    " " :> 32 @@ "!" :> 33 @@ "\"" :> 34 @@ "#" :> 35 @@ "$" :> 36 @@ "%" :> 37 @@
    "&" :> 38 @@ "'" :> 39 @@ "(" :> 40 @@ ")" :> 41 @@ "*" :> 42 @@ "+" :> 43 @@
    "," :> 44 @@ "-" :> 45 @@ "." :> 46 @@ "/" :> 47 @@ "0" :> 48 @@ "1" :> 49 @@
    "2" :> 50 @@ "3" :> 51 @@ "4" :> 52 @@ "5" :> 53 @@ "6" :> 54 @@ "7" :> 55 @@
    "8" :> 56 @@ "9" :> 57 @@ ":" :> 58 @@ ";" :> 59 @@ "<" :> 60 @@ "=" :> 61 @@
    ">" :> 62 @@ "?" :> 63 @@ "@" :> 64 @@ "A" :> 65 @@ "B" :> 66 @@ "C" :> 67 @@
    "D" :> 68 @@ "E" :> 69 @@ "F" :> 70 @@ "G" :> 71 @@ "H" :> 72 @@ "I" :> 73 @@
    "J" :> 74 @@ "K" :> 75 @@ "L" :> 76 @@ "M" :> 77 @@ "N" :> 78 @@ "O" :> 79 @@
    "P" :> 80 @@ "Q" :> 81 @@ "R" :> 82 @@ "S" :> 83 @@ "T" :> 84 @@ "U" :> 85 @@
    "V" :> 86 @@ "W" :> 87 @@ "X" :> 88 @@ "Y" :> 89 @@ "Z" :> 90 @@ "[" :> 91 @@
    "\\" :> 92 @@ "]" :> 93 @@ "^" :> 94 @@ "_" :> 95 @@ "a" :> 97 @@
    "b" :> 98 @@ "c" :> 99 @@ "d" :> 100 @@ "e" :> 101 @@ "f" :> 102 @@ "g" :> 103 @@
    "h" :> 104 @@ "i" :> 105 @@ "j" :> 106 @@ "k" :> 107 @@ "l" :> 108 @@ "m" :> 109 @@
    "n" :> 110 @@ "o" :> 111 @@ "p" :> 112 @@ "q" :> 113 @@ "r" :> 114 @@ "s" :> 115 @@
    "t" :> 116 @@ "u" :> 117 @@ "v" :> 118 @@ "w" :> 119 @@ "x" :> 120 @@ "y" :> 121 @@
    "z" :> 122 @@ "{" :> 123 @@ "|" :> 124 @@ "}" :> 125 @@ "~" :> 126

\* The str whose characters are the one-character TLA+ strings of tuple t.
Str(t) == [i \in 1..Len(t) |-> Ord[t[i]]]

\* Code points used by name.
BACKTICK == 96
LF == 10
CR == 13
BACKSLASH == 92
SQUOTE == 39
DQUOTE == 34
SPACE == 32
SLASH == 47
\* U+200B ZERO WIDTH SPACE, the character _normalize_command strips.
ZWSP == 8203
\* sys.maxunicode: chr() raises above it.
MaxUnicode == 1114111

\* str.isspace() and the regular expression class \s on a str pattern.
IsSpace(c) ==
    \/ c \in 9..13
    \/ c \in 28..32
    \/ c \in {133, 160, 5760, 8232, 8233, 8239, 8287, 12288}
    \/ c \in 8192..8202

IsDigit(c) == c \in 48..57
IsOctDigit(c) == c \in 48..55
IsHexDigit(c) == c \in 48..57 \/ c \in 65..70 \/ c \in 97..102
IsAlpha(c) == c \in 65..90 \/ c \in 97..122
\* \w of the regular expressions, on the ASCII range.
IsWord(c) == IsAlpha(c) \/ IsDigit(c) \/ c = 95

\* int(h, 16) of one hexadecimal digit.
HexVal(c) ==
    IF c \in 48..57 THEN c - 48
    ELSE IF c \in 65..70 THEN c - 55
    ELSE c - 87

\* int(s[i .. i+n-1], base) for base 8 or 16.
RECURSIVE IntOf(_, _, _, _)
IntOf(s, i, n, base) ==
    IF n = 0 THEN 0
    ELSE IntOf(s, i, n - 1, base) * base + HexVal(s[i + n - 1])

\* Every one of s[i .. i+n-1] exists and is a hexadecimal digit.
HexRun(s, i, n) ==
    /\ i + n - 1 <= Len(s)
    /\ \A k \in i..(i + n - 1) : IsHexDigit(s[k])

\* str.lower() of one character (ASCII letters; other characters of the
\* modelled alphabet have no case).
LowerChar(c) == IF c \in 65..90 THEN c + 32 ELSE c
Lower(s) == [i \in 1..Len(s) |-> LowerChar(s[i])]

\* p occurs in s starting at index i.
MatchAt(p, s, i) ==
    /\ i + Len(p) - 1 <= Len(s)
    /\ \A k \in 1..Len(p) : s[i + k - 1] = p[k]

\* str.startswith, the `in` operator on str, and str.endswith.
StartsWith(s, p) == MatchAt(p, s, 1)
Contains(s, p) == \E i \in 1..(Len(s) + 1) : MatchAt(p, s, i)
EndsWith(s, p) == Len(p) <= Len(s) /\ MatchAt(p, s, Len(s) - Len(p) + 1)

\* s[i:] in Python's notation (1-based i).
From(s, i) == SubSeq(s, i, Len(s))

\* The least index in lo..hi that satisfies Q, hi + 1 if none does; and the
\* greatest, lo - 1 if none does: the scans of the library routines below.
FirstFrom(lo, hi, Q(_)) ==
    LET hits == {j \in lo..hi : Q(j)} IN
    IF hits = {} THEN hi + 1 ELSE CHOOSE j \in hits : \A k \in hits : j <= k
LastUpto(lo, hi, Q(_)) ==
    LET hits == {j \in lo..hi : Q(j)} IN
    IF hits = {} THEN lo - 1 ELSE CHOOSE j \in hits : \A k \in hits : j >= k

\* str.lstrip() and str.strip().
LStrip(s) == From(s, FirstFrom(1, Len(s), LAMBDA j : ~IsSpace(s[j])))
Strip(s) ==
    SubSeq(s, FirstFrom(1, Len(s), LAMBDA j : ~IsSpace(s[j])),
              LastUpto(1, Len(s), LAMBDA j : ~IsSpace(s[j])))

\* The index after the run of whitespace, and of backslashes, starting at s[i].
SpaceEnd(s, i) == FirstFrom(i, Len(s), LAMBDA j : ~IsSpace(s[j]))
RunEnd(s, i) == FirstFrom(i, Len(s), LAMBDA j : s[j] # BACKSLASH)

\* str.split() with no argument, from index i: the runs of non-whitespace.
RECURSIVE SplitWs(_, _)
SplitWs(s, i) ==
    LET a == SpaceEnd(s, i)
        b == FirstFrom(a, Len(s), LAMBDA j : IsSpace(s[j]))
    IN  IF a > Len(s) THEN <<>> ELSE <<SubSeq(s, a, b - 1)>> \o SplitWs(s, b)

\* str.rpartition(sep)[2], str.partition(sep)[0] and str.partition(sep)[2]
\* for a one-character sep; s.rsplit("/", 1)[-1] is AfterLast(s, SLASH).
AfterLast(s, sep) == From(s, LastUpto(1, Len(s), LAMBDA j : s[j] = sep) + 1)
Before(s, sep) == SubSeq(s, 1, FirstFrom(1, Len(s), LAMBDA j : s[j] = sep) - 1)
After(s, sep) == From(s, FirstFrom(1, Len(s), LAMBDA j : s[j] = sep) + 1)
Basename(s) == AfterLast(s, SLASH)

-----------------------------------------------------------------------------
(* Normalizer: CommandAuditor._normalize_command                             *)

\* unicodedata.normalize("NFKC", c) of one character: the fullwidth forms
\* U+FF01..U+FF5E fold to ASCII, NO-BREAK SPACE and IDEOGRAPHIC SPACE fold to
\* a space; ASCII and U+200B are unchanged.
NfkcChar(c) ==
    IF c \in 65281..65374 THEN c - 65248
    ELSE IF c = 160 \/ c = 12288 THEN SPACE
    ELSE c
Nfkc(s) == [i \in 1..Len(s) |-> NfkcChar(s[i])]

\* s.replace(old, "") for a one-character old.
RemoveChar(s, old) == SelectSeq(s, LAMBDA c : c # old)

\* bytes(c, "utf-8") of one character.
Utf8(c) ==
    IF c < 128 THEN <<c>>
    ELSE IF c < 2048 THEN <<192 + (c \div 64), 128 + (c % 64)>>
    ELSE IF c < 65536
         THEN <<224 + (c \div 4096), 128 + ((c \div 64) % 64), 128 + (c % 64)>>
         ELSE <<240 + (c \div 262144), 128 + ((c \div 4096) % 64),
                128 + ((c \div 64) % 64), 128 + (c % 64)>>
\* bytes(s[i:], "utf-8")
RECURSIVE Utf8Bytes(_, _)
Utf8Bytes(s, i) ==
    LET j == FirstFrom(i, Len(s), LAMBDA k : s[k] >= 128) IN
    IF j > Len(s) THEN From(s, i)
    ELSE SubSeq(s, i, j - 1) \o Utf8(s[j]) \o Utf8Bytes(s, j + 1)

\* The single-character escapes of the unicode_escape codec.
SimpleEscape ==
    92 :> 92 @@ 39 :> 39 @@ 34 :> 34 @@ 97 :> 7 @@ 98 :> 8 @@ 102 :> 12 @@
    110 :> 10 @@ 114 :> 13 @@ 116 :> 9 @@ 118 :> 11

\* The number of octal digits, at most 3, starting at b[i].
OctRun(b, i) ==
    IF i + 2 <= Len(b) /\ IsOctDigit(b[i]) /\ IsOctDigit(b[i + 1]) /\ IsOctDigit(b[i + 2])
    THEN 3
    ELSE IF i + 1 <= Len(b) /\ IsOctDigit(b[i]) /\ IsOctDigit(b[i + 1]) THEN 2
    ELSE IF i <= Len(b) /\ IsOctDigit(b[i]) THEN 1
    ELSE 0

\* A result that is a str, or an exception.
Ok(val) == [ok |-> TRUE, val |-> val]
Fail == [ok |-> FALSE, val |-> <<>>]
\* a followed by the result r, an exception in r propagating.
Then(a, r) == IF r.ok THEN Ok(a \o r.val) ELSE Fail

\* b[i:].decode("unicode_escape"): Ok(text), or Fail where the codec raises
\* UnicodeDecodeError (a truncated \x, \u or \U escape, a \U escape above
\* U+10FFFF, a backslash at the end; \N{...} names are not modelled and are
\* taken as unknown names). j is the next backslash, c the character after it.
RECURSIVE UnicodeEscape(_, _)
UnicodeEscape(b, i) ==
    LET j == FirstFrom(i, Len(b), LAMBDA k : b[k] = BACKSLASH)
        c == b[j + 1]
        plain == SubSeq(b, i, j - 1)
    IN  CASE j > Len(b) -> Ok(From(b, i))
          [] j = Len(b) -> Fail
          [] j < Len(b) /\ c = LF -> Then(plain, UnicodeEscape(b, j + 2))
          [] j < Len(b) /\ c \in DOMAIN SimpleEscape ->
                Then(Append(plain, SimpleEscape[c]), UnicodeEscape(b, j + 2))
          [] j < Len(b) /\ IsOctDigit(c) ->
                Then(Append(plain, IntOf(b, j + 1, OctRun(b, j + 1), 8)),
                     UnicodeEscape(b, j + 1 + OctRun(b, j + 1)))
          [] j < Len(b) /\ c = 120 ->
                IF HexRun(b, j + 2, 2)
                THEN Then(Append(plain, IntOf(b, j + 2, 2, 16)), UnicodeEscape(b, j + 4))
                ELSE Fail
          [] j < Len(b) /\ c = 117 ->
                IF HexRun(b, j + 2, 4)
                THEN Then(Append(plain, IntOf(b, j + 2, 4, 16)), UnicodeEscape(b, j + 6))
                ELSE Fail
          [] j < Len(b) /\ c = 85 ->
                IF HexRun(b, j + 2, 8) /\ IntOf(b, j + 2, 8, 16) <= MaxUnicode
                THEN Then(Append(plain, IntOf(b, j + 2, 8, 16)), UnicodeEscape(b, j + 10))
                ELSE Fail
          [] j < Len(b) /\ c = 78 -> Fail
          [] OTHER -> Then(plain \o <<BACKSLASH, c>>, UnicodeEscape(b, j + 2))

\* _decode_ansi_c_strings._replace: the payload decoded, or the payload itself
\* when encoding (a lone surrogate) or decoding raises.
AnsiCReplace(payload) ==
    IF \E k \in 1..Len(payload) : payload[k] \in 55296..57343
    THEN payload
    ELSE LET d == UnicodeEscape(Utf8Bytes(payload, 1), 1) IN
         IF d.ok THEN d.val ELSE payload

\* The index of the first single quote of s at or after i, Len(s) + 1 if none.
NextQuote(s, i) == FirstFrom(i, Len(s), LAMBDA k : s[k] = SQUOTE)

\* re.sub(r"\$'([^']*)'", _replace, command) from index i: j is where the
\* next match starts, q its closing quote.
RECURSIVE DecodeAnsiCFrom(_, _)
DecodeAnsiCFrom(s, i) ==
    LET j == FirstFrom(i, Len(s) - 2,
                 LAMBDA k : s[k] = 36 /\ s[k + 1] = SQUOTE /\ NextQuote(s, k + 2) <= Len(s))
        q == NextQuote(s, j + 2)
    IN  IF j > Len(s) - 2 THEN From(s, i)
        ELSE SubSeq(s, i, j - 1) \o AnsiCReplace(SubSeq(s, j + 2, q - 1))
                 \o DecodeAnsiCFrom(s, q + 1)
_decode_ansi_c_strings(command) == DecodeAnsiCFrom(command, 1)

\* re.sub(r"\\<letter>([0-9a-fA-F]{n})", lambda m: chr(int(m.group(1), 16)), s)
\* from index i: Ok(text), or Fail where chr() raises ValueError/OverflowError
\* (a code point above sys.maxunicode).
RECURSIVE SubHexEscape(_, _, _, _)
SubHexEscape(s, i, letter, n) ==
    LET j == FirstFrom(i, Len(s),
                 LAMBDA k : s[k] = BACKSLASH /\ k + 1 <= Len(s) /\ s[k + 1] = letter
                            /\ HexRun(s, k + 2, n))
    IN  IF j > Len(s) THEN Ok(From(s, i))
        ELSE IF IntOf(s, j + 2, n, 16) > MaxUnicode THEN Fail
        ELSE Then(Append(SubSeq(s, i, j - 1), IntOf(s, j + 2, n, 16)),
                  SubHexEscape(s, j + 2 + n, letter, n))

\* re.sub(r"\\([0-7]{1,3})", lambda m: chr(int(m.group(1), 8)), s) from i.
RECURSIVE SubOctEscape(_, _)
SubOctEscape(s, i) ==
    LET j == FirstFrom(i, Len(s), LAMBDA k : s[k] = BACKSLASH /\ OctRun(s, k + 1) > 0)
        n == OctRun(s, j + 1)
    IN  IF j > Len(s) THEN From(s, i)
        ELSE Append(SubSeq(s, i, j - 1), IntOf(s, j + 1, n, 8)) \o SubOctEscape(s, j + 1 + n)

\* The octal pass of _decode_common_escapes, reached unless the \U pass raised.
OctAfter(hex) == IF hex.ok THEN Ok(SubOctEscape(hex.val, 1)) ELSE Fail

\* CommandAuditor._decode_common_escapes: Ok(decoded text), or Fail where the
\* \U pass calls chr() on a value above sys.maxunicode: the
\* ValueError/OverflowError has no handler.
_decode_common_escapes(command) ==
    IF ~ \E k \in 1..Len(command) : command[k] = BACKSLASH
    THEN Ok(command)
    ELSE OctAfter(SubHexEscape(
             SubHexEscape(SubHexEscape(command, 1, 120, 2).val, 1, 117, 4).val, 1, 85, 8))

\* re.sub(r"\\\r?\n", "", s) from index i.
RECURSIVE JoinContinuations(_, _)
JoinContinuations(s, i) ==
    LET j == FirstFrom(i, Len(s),
                 LAMBDA k : /\ s[k] = BACKSLASH
                            /\ \/ MatchAt(<<LF>>, s, k + 1)
                               \/ MatchAt(<<CR, LF>>, s, k + 1))
    IN  IF j > Len(s) THEN From(s, i)
        ELSE SubSeq(s, i, j - 1)
                 \o JoinContinuations(s, IF s[j + 1] = LF THEN j + 2 ELSE j + 3)

\* re.sub(r"\\+([^\s])", r"\1", s) from index i: j is the next backslash, e
\* the index after its run. The greedy run gives back its last backslash to
\* the group when no non-space character follows it.
RECURSIVE StripBackslashes(_, _)
StripBackslashes(s, i) ==
    LET j == FirstFrom(i, Len(s), LAMBDA k : s[k] = BACKSLASH)
        e == RunEnd(s, j)
    IN  IF j > Len(s) THEN From(s, i)
        ELSE IF e <= Len(s) /\ ~IsSpace(s[e])
             THEN Append(SubSeq(s, i, j - 1), s[e]) \o StripBackslashes(s, e + 1)
        ELSE IF e - j >= 2
             THEN Append(SubSeq(s, i, j - 1), BACKSLASH) \o StripBackslashes(s, e)
        ELSE SubSeq(s, i, j) \o StripBackslashes(s, j + 1)

\* re.sub(r"\\+\s+", " ", s) from index i.
RECURSIVE BackslashSpace(_, _)
BackslashSpace(s, i) ==
    LET j == FirstFrom(i, Len(s), LAMBDA k : s[k] = BACKSLASH)
        e == RunEnd(s, j)
    IN  IF j > Len(s) THEN From(s, i)
        ELSE IF e <= Len(s) /\ IsSpace(s[e])
             THEN Append(SubSeq(s, i, j - 1), SPACE) \o BackslashSpace(s, SpaceEnd(s, e))
        ELSE SubSeq(s, i, e - 1) \o BackslashSpace(s, e)

\* re.sub(r"\s+", " ", s): the first character of each run of whitespace
\* becomes a space and the rest of the run is dropped.
CollapseSpace(s) ==
    SelectSeq([i \in 1..Len(s) |->
                  IF ~IsSpace(s[i]) THEN s[i]
                  ELSE IF i > 1 /\ IsSpace(s[i - 1]) THEN -1
                  ELSE SPACE],
              LAMBDA c : c # -1)

\* CommandAuditor._normalize_command: Ok(canonical text), or Fail where
\* _decode_common_escapes raises.
UnescapeAndCollapse(decoded) ==
    IF ~decoded.ok THEN Fail
    ELSE Ok(Strip(CollapseSpace(BackslashSpace(StripBackslashes(
                JoinContinuations(decoded.val, 1), 1), 1))))
_normalize_command(command) ==
    UnescapeAndCollapse(
        _decode_common_escapes(_decode_ansi_c_strings(RemoveChar(Nfkc(command), ZWSP))))

-----------------------------------------------------------------------------
(* shlex.split(command, posix=True)                                          *)

\* The lexer's whitespace, quotes and escape characters.
IsShlexSpace(c) == c \in {32, 9, 13, 10}
IsShlexQuote(c) == c = SQUOTE \/ c = DQUOTE

\* shlex.shlex.read_token run to the end of the input, one call per change of
\* lexer state: state is the lexer state (32 for ' ', 97 for 'a', a quote
\* character, or the backslash), escapedstate the state an escape returns to,
\* token the token being built, quoted whether it had a quoted part, out the
\* tokens emitted; k is the next character that does not simply extend the
\* token (or the whitespace). Ends in Ok(tokens) or, for "No closing
\* quotation" and "No escaped character" (ValueError), Fail.
RECURSIVE Shlex(_, _, _, _, _, _, _)
Shlex(s, i, state, escapedstate, token, quoted, out) ==
    LET n == Len(s)
        k == CASE state = 32 -> FirstFrom(i, n, LAMBDA j : ~IsShlexSpace(s[j]))
               [] state = SQUOTE -> FirstFrom(i, n, LAMBDA j : s[j] = SQUOTE)
               [] state = DQUOTE -> FirstFrom(i, n, LAMBDA j : s[j] \in {DQUOTE, BACKSLASH})
               [] state = BACKSLASH -> i
               [] OTHER -> FirstFrom(i, n, LAMBDA j : IsShlexSpace(s[j]) \/ IsShlexQuote(s[j])
                                                      \/ s[j] = BACKSLASH)
        tok == IF state = 32 THEN token ELSE token \o SubSeq(s, i, k - 1)
    IN  CASE k > n /\ (IsShlexQuote(state) \/ state = BACKSLASH) -> Fail
          [] k > n /\ state = 32 -> Ok(out)
          [] k > n /\ state = 97 ->
                IF tok # <<>> \/ quoted THEN Ok(Append(out, tok)) ELSE Ok(out)
          [] k <= n /\ state = 32 /\ s[k] = BACKSLASH ->
                Shlex(s, k + 1, BACKSLASH, 97, tok, quoted, out)
          [] k <= n /\ state = 32 /\ IsShlexQuote(s[k]) ->
                Shlex(s, k + 1, s[k], escapedstate, tok, quoted, out)
          [] k <= n /\ state = 32 /\ s[k] # BACKSLASH /\ ~IsShlexQuote(s[k]) ->
                Shlex(s, k + 1, 97, escapedstate, <<s[k]>>, quoted, out)
          [] k <= n /\ IsShlexQuote(state) /\ s[k] = state ->
                Shlex(s, k + 1, 97, escapedstate, tok, TRUE, out)
          [] k <= n /\ IsShlexQuote(state) /\ s[k] # state ->
                Shlex(s, k + 1, BACKSLASH, state, tok, TRUE, out)
          [] k <= n /\ state = BACKSLASH ->
                Shlex(s, k + 1, escapedstate, escapedstate,
                      IF IsShlexQuote(escapedstate) /\ s[k] # BACKSLASH /\ s[k] # escapedstate
                      THEN tok \o <<BACKSLASH, s[k]>> ELSE Append(tok, s[k]),
                      quoted \/ IsShlexQuote(escapedstate), out)
          [] k <= n /\ state = 97 /\ IsShlexSpace(s[k]) ->
                IF tok # <<>> \/ quoted
                THEN Shlex(s, k + 1, 32, 32, <<>>, FALSE, Append(out, tok))
                ELSE Shlex(s, k + 1, 32, escapedstate, tok, quoted, out)
          [] k <= n /\ state = 97 /\ IsShlexQuote(s[k]) ->
                Shlex(s, k + 1, s[k], escapedstate, tok, quoted, out)
          [] k <= n /\ state = 97 /\ s[k] = BACKSLASH ->
                Shlex(s, k + 1, BACKSLASH, 97, tok, quoted, out)

ShlexSplit(command) == Shlex(command, 1, 32, 32, <<>>, FALSE, <<>>)

\* try: shlex.split(command) except ValueError: command.split()
OrSplit(t, command) == IF t.ok THEN t.val ELSE SplitWs(command, 1)
TokensOrSplit(command) == OrSplit(ShlexSplit(command), command)

-----------------------------------------------------------------------------
(* AuditDecision (models.py)                                                 *)

\* No clamping at all.
NoClamp(risk_score) == risk_score

\* max(0, min(10, risk_score))
Clamp(risk_score) ==
    IF risk_score < 0 THEN 0 ELSE IF risk_score > 10 THEN 10 ELSE risk_score

\* A reason string: its fixed text and the value formatted into it.
Reason(text, arg) == [text |-> text, arg |-> arg, detail |-> "", request_id |-> <<>>]

\* AuditDecision(allowed=..., risk_score=..., reason=...): no clamping.
AuditDecision(allowed, risk_score, reason) ==
    [allowed |-> allowed, risk_score |-> risk_score, reason |-> reason]

\* A reject that does not reject.
RejectAllowing(reason, risk_score) == AuditDecision(TRUE, Clamp(risk_score), reason)

\* AuditDecision.reject(reason, risk_score)
Reject(reason, risk_score) == AuditDecision(FALSE, Clamp(risk_score), reason)

\* AuditDecision.to_dict()
to_dict(decision) ==
    [allowed |-> decision.allowed,
     risk_score |-> Clamp(decision.risk_score),
     reason |-> decision.reason]

\* The outcomes of a decision layer: a decision, no decision (None), or an
\* exception that propagates to the caller.
Decided(decision) == [kind |-> "decision", decision |-> decision]
NoDecision == [kind |-> "none", decision |-> AuditDecision(FALSE, 10, Reason("", <<>>))]
Raises(what) == [kind |-> "raise", decision |-> AuditDecision(FALSE, 10, Reason(what, <<>>))]

-----------------------------------------------------------------------------
(* Hard-Kill Filter and lockdown allowlist (command_auditor.py)              *)

\* String literals of command_auditor.py.
S_env == Str(<<"e", "n", "v">>)
S_dashdash == Str(<<"-", "-">>)
S_python == Str(<<"p", "y", "t", "h", "o", "n">>)
S_base64_d == Str(<<"b", "a", "s", "e", "6", "4", " ", "-", "d">>)
S_base64_decode ==
    Str(<<"b", "a", "s", "e", "6", "4", " ", "-", "-", "d", "e", "c", "o", "d", "e">>)
S_bash == Str(<<"b", "a", "s", "h">>)
S_sh == Str(<<"s", "h">>)
S_http == Str(<<"h", "t", "t", "p", ":", "/", "/">>)
S_https == Str(<<"h", "t", "t", "p", "s", ":", "/", "/">>)

\* ENV_ASSIGNMENT_RE.fullmatch(token): ^[A-Za-z_][A-Za-z0-9_]*=.*$
IdentEnd(s, i) == FirstFrom(i, Len(s), LAMBDA j : ~IsWord(s[j]))
IsEnvAssignment(token) ==
    /\ token # <<>>
    /\ IsAlpha(token[1]) \/ token[1] = 95
    /\ LET j == IdentEnd(token, 1) IN
       /\ j <= Len(token)
       /\ token[j] = 61
       /\ \A k \in (j + 1)..Len(token) : token[k] # LF

\* The loop of _extract_executable that skips env's flags and assignments:
\* the index of the first token it does not skip.
RECURSIVE SkipEnvArgs(_, _)
SkipEnvArgs(tokens, start_index) ==
    IF start_index > Len(tokens) THEN start_index
    ELSE LET token == Strip(tokens[start_index]) IN
         IF token = <<>> THEN SkipEnvArgs(tokens, start_index + 1)
         ELSE IF token = S_dashdash THEN start_index + 1
         ELSE IF token[1] = 45 THEN SkipEnvArgs(tokens, start_index + 1)
         ELSE IF IsEnvAssignment(token) THEN SkipEnvArgs(tokens, start_index + 1)
         ELSE start_index

\* The final loop of _extract_executable over tokens[start_index:]: the
\* executable's basename in lower case, <<>> standing for None.
RECURSIVE FirstExecutable(_, _)
FirstExecutable(tokens, k) ==
    IF k > Len(tokens) THEN <<>>
    ELSE LET stripped == Strip(tokens[k]) IN
         IF stripped = <<>> \/ IsEnvAssignment(stripped)
         THEN FirstExecutable(tokens, k + 1)
         ELSE Basename(Lower(stripped))

\* CommandAuditor._extract_executable from its tokens on: <<>> stands for
\* None (a returned basename can be empty only for a token ending in "/",
\* which no blocked tool equals either).
ExecutableOf(tokens) ==
    IF tokens = <<>> THEN <<>>
    ELSE IF Basename(Lower(Strip(tokens[1]))) = S_env
         THEN FirstExecutable(tokens, SkipEnvArgs(tokens, 2))
         ELSE FirstExecutable(tokens, 1)

\* CommandAuditor._extract_executable
_extract_executable(command) == ExecutableOf(TokensOrSplit(command))

\* re.fullmatch(r"python(?:\d+(?:\.\d+)*)?", candidate)
RECURSIVE IsVersionSuffix(_, _, _)
IsVersionSuffix(s, i, needDigit) ==
    IF i > Len(s) THEN ~needDigit
    ELSE IF IsDigit(s[i]) THEN IsVersionSuffix(s, i + 1, FALSE)
    ELSE IF s[i] = 46 /\ ~needDigit THEN IsVersionSuffix(s, i + 1, TRUE)
    ELSE FALSE
IsPythonName(candidate) ==
    /\ StartsWith(candidate, S_python)
    /\ \/ Len(candidate) = Len(S_python)
       \/ IsVersionSuffix(candidate, Len(S_python) + 1, TRUE)

\* CommandAuditor._match_blocked_tool: the index in blocked_tools of the tool
\* matched, 0 standing for None.
RECURSIVE MatchBlockedTool(_, _, _)
MatchBlockedTool(blocked_tools, candidate, k) ==
    IF k > Len(blocked_tools) THEN 0
    ELSE LET blocked == Strip(Lower(blocked_tools[k])) IN
         IF candidate = blocked THEN k
         ELSE IF blocked = S_python /\ IsPythonName(candidate) THEN k
         ELSE MatchBlockedTool(blocked_tools, candidate, k + 1)
MatchCandidate(blocked_tools, candidate) ==
    IF candidate = <<>> THEN 0 ELSE MatchBlockedTool(blocked_tools, candidate, 1)
_match_blocked_tool(config, command) ==
    MatchCandidate(config.blocked_tools, _extract_executable(command))

\* CommandAuditor._contains_network_tool
IsNetworkTool(blocked_network_tools, executable) ==
    /\ executable # <<>>
    /\ \E k \in 1..Len(blocked_network_tools) :
          executable = Strip(Lower(blocked_network_tools[k]))
_contains_network_tool(config, command) ==
    IsNetworkTool(config.blocked_network_tools, _extract_executable(command))

\* CommandAuditor._contains_base64_shell_exec:
\* re.search(r"(?:\||&&|;)\s*(?:bash|sh)\b", lowered_command)
WordEndsAt(s, p, j) ==
    /\ MatchAt(p, s, j)
    /\ j + Len(p) > Len(s) \/ ~IsWord(s[j + Len(p)])
InvokesShellAfter(s, j) ==
    LET k == SpaceEnd(s, j) IN WordEndsAt(s, S_bash, k) \/ WordEndsAt(s, S_sh, k)
_contains_base64_shell_exec(lowered_command) ==
    /\ Contains(lowered_command, S_base64_d) \/ Contains(lowered_command, S_base64_decode)
    /\ \E i \in 1..Len(lowered_command) :
          \/ lowered_command[i] \in {124, 59} /\ InvokesShellAfter(lowered_command, i + 1)
          \/ /\ MatchAt(<<38, 38>>, lowered_command, i)
             /\ InvokesShellAfter(lowered_command, i + 2)

\* re.findall(r"https?://[^\s'\"]+", command) from index i.
UrlEnd(s, i) ==
    FirstFrom(i, Len(s), LAMBDA j : IsSpace(s[j]) \/ s[j] = SQUOTE \/ s[j] = DQUOTE)
SchemeLen(s, i) ==
    IF MatchAt(S_http, s, i) THEN Len(S_http)
    ELSE IF MatchAt(S_https, s, i) THEN Len(S_https) ELSE 0
RECURSIVE FindUrls(_, _)
FindUrls(s, i) ==
    LET j == FirstFrom(i, Len(s),
                 LAMBDA k : SchemeLen(s, k) > 0 /\ UrlEnd(s, k + SchemeLen(s, k)) > k + SchemeLen(s, k))
        e == UrlEnd(s, j + SchemeLen(s, j))
    IN  IF j > Len(s) THEN <<>> ELSE <<SubSeq(s, j, e - 1)>> \o FindUrls(s, e)

\* CommandAuditor._extract_urls
UrlsAmong(t, command) ==
    IF ~t.ok THEN <<>>
    ELSE LET urls == SelectSeq(t.val,
                         LAMBDA token : StartsWith(token, S_http) \/ StartsWith(token, S_https))
         IN  IF urls # <<>> THEN urls ELSE FindUrls(command, 1)
_extract_urls(command) == UrlsAmong(ShlexSplit(command), command)

\* The netloc of urllib.parse.urlsplit(url) for an http(s) URL: what follows
\* "//" up to the first "/", "?" or "#", tabs and newlines removed first.
NetlocEnd(s, i) == FirstFrom(i, Len(s), LAMBDA j : s[j] \in {47, 63, 35})
Netloc(url) ==
    LET u == SelectSeq(url, LAMBDA c : c \notin {9, 10, 13})
        start == IF StartsWith(u, S_https) THEN Len(S_https) + 1 ELSE Len(S_http) + 1
    IN  SubSeq(u, start, NetlocEnd(u, start) - 1)

\* The bracketed hosts ipaddress.ip_address accepts as IPv6, among those the
\* modelled commands use: "::1".
ValidBracketedHosts == {Str(<<":", ":", "1">>)}

\* CommandAuditor._extract_domain: urlparse(url).hostname in lower case as
\* [ok |-> TRUE, val |-> hostname] (<<>> for None), or [ok |-> FALSE] where
\* urlsplit raises ValueError ("Invalid IPv6 URL", or an invalid bracketed
\* host); _extract_domain has no handler for it.
_extract_domain(url) ==
    LET netloc == Netloc(url)
        open == \E i \in 1..Len(netloc) : netloc[i] = 91
        close == \E i \in 1..Len(netloc) : netloc[i] = 93
        hostinfo == AfterLast(netloc, 64)
    IN  IF open # close THEN [ok |-> FALSE, val |-> <<>>]
        ELSE IF open /\ Before(After(netloc, 91), 93) \notin ValidBracketedHosts
             THEN [ok |-> FALSE, val |-> <<>>]
        ELSE IF \E i \in 1..Len(hostinfo) : hostinfo[i] = 91
             THEN [ok |-> TRUE, val |-> Lower(Before(After(hostinfo, 91), 93))]
        ELSE [ok |-> TRUE, val |-> Lower(Before(hostinfo, 58))]

\* CommandAuditor._is_whitelisted_domain
_is_whitelisted_domain(config, domain) ==
    \E k \in 1..Len(config.whitelisted_domains) :
        LET candidate == Strip(Lower(config.whitelisted_domains[k])) IN
        domain = candidate \/ EndsWith(domain, <<46>> \o candidate)

\* CommandAuditor._contains_shell_control
_contains_shell_control(command) ==
    \/ Contains(command, <<36, 40>>)
    \/ \E i \in 1..Len(command) : command[i] \in {LF, CR, 59, 124, BACKTICK, 60, 62}
    \/ Contains(command, <<38, 38>>)

\* CommandAuditor._is_safe_lockdown_suffix
_is_safe_lockdown_suffix(suffix) ==
    LET stripped == LStrip(suffix) IN
    \/ stripped = <<>>
    \/ ~ (\/ stripped[1] \in {59, 38, 124, BACKTICK, 60, 62}
          \/ StartsWith(stripped, <<36, 40>>))

\* The first index k of seq with P(seq[k]), 0 if there is none: a for loop
\* that returns at its first hit.
FirstIndex(seq, P(_)) ==
    LET hits == {k \in 1..Len(seq) : P(seq[k])} IN
    IF hits = {} THEN 0 ELSE CHOOSE k \in hits : \A j \in hits : k <= j

\* The body of the loop of _is_allowed_in_lockdown for one entry, normalized
\* and lowered: "True" when it returns True, "Next" when the loop goes on.
AllowedEntry(allowed_normalized, normalized_command, first_token, first_basename) ==
    IF allowed_normalized = <<>> THEN "Next"
    ELSE IF \E i \in 1..Len(allowed_normalized) : allowed_normalized[i] = SPACE
         THEN IF normalized_command = allowed_normalized THEN "True"
              ELSE IF /\ StartsWith(normalized_command, allowed_normalized)
                      /\ _is_safe_lockdown_suffix(
                             From(normalized_command, Len(allowed_normalized) + 1))
                   THEN "True"
              ELSE IF first_token = allowed_normalized
                      \/ first_basename = allowed_normalized
                   THEN "True"
              ELSE "Next"
    ELSE IF \/ normalized_command = allowed_normalized
            \/ StartsWith(normalized_command, Append(allowed_normalized, SPACE))
         THEN "True"
    ELSE IF first_token = allowed_normalized \/ first_basename = allowed_normalized
         THEN "True"
    ELSE "Next"

\* The loop of _is_allowed_in_lockdown over the normalized entries, from entry
\* k: "True", "False", or "Raise" when normalizing an entry raised.
RECURSIVE AllowedLoop(_, _, _, _, _)
AllowedLoop(entries, k, normalized_command, first_token, first_basename) ==
    IF k > Len(entries) THEN "False"
    ELSE IF ~entries[k].ok THEN "Raise"
    ELSE IF AllowedEntry(Lower(entries[k].val), normalized_command,
                         first_token, first_basename) = "True"
         THEN "True"
    ELSE AllowedLoop(entries, k + 1, normalized_command, first_token, first_basename)

\* _is_allowed_in_lockdown once the command is lowered and tokenized.
AllowedAmong(allowed_commands, normalized_command, first_token) ==
    IF _contains_shell_control(normalized_command) THEN "False"
    ELSE AllowedLoop([k \in 1..Len(allowed_commands) |->
                         _normalize_command(allowed_commands[k])],
                     1, normalized_command, first_token, Basename(first_token))
FirstLowered(tokens) == IF tokens # <<>> THEN Lower(tokens[1]) ELSE <<>>

\* CommandAuditor._is_allowed_in_lockdown: "True", "False" or "Raise".
_is_allowed_in_lockdown(config, command) ==
    IF config.allowed_commands = <<>> THEN "False"
    ELSE AllowedAmong(config.allowed_commands, Lower(Strip(command)),
                      FirstLowered(TokensOrSplit(command)))

\* The loop of _hard_kill_filter over the URLs of a network command, from
\* URL k: the rejection of the first URL that fails, None when all pass, or
\* the ValueError of urlparse.
RECURSIVE CheckUrls(_, _, _)
CheckUrls(config, urls, k) ==
    IF k > Len(urls) THEN NoDecision
    ELSE LET domain == _extract_domain(urls[k]) IN
         IF ~domain.ok THEN Raises("ValueError: Invalid IPv6 URL")
         ELSE IF domain.val = <<>>
              THEN Decided(Reject(Reason("Could not parse domain from network target", urls[k]), 10))
         ELSE IF ~_is_whitelisted_domain(config, domain.val)
              THEN Decided(Reject(Reason("Outbound network domain not whitelisted", domain.val), 10))
         ELSE CheckUrls(config, urls, k + 1)

\* The network-domain check of _hard_kill_filter (its last check).
CheckAllUrls(config, urls) ==
    IF urls = <<>>
    THEN Decided(Reject(Reason("Network command without explicit URL/domain is rejected.", <<>>), 10))
    ELSE CheckUrls(config, urls, 1)
NetworkCheck(config, command) ==
    IF ~_contains_network_tool(config, command) THEN NoDecision
    ELSE CheckAllUrls(config, _extract_urls(command))

\* The checks in another order: the network-domain check before the blocked
\* strings.
HardKillChecksNetworkFirst(config, command, lowered_command, lockdown, s, p, t) ==
    IF Strip(command) = <<>>
    THEN Decided(Reject(Reason("Empty command is rejected under fail-closed policy.", <<>>), 10))
    ELSE IF lockdown = "Raise" THEN Raises("normalizing allowed_commands")
    ELSE IF lockdown = "False"
         THEN Decided(Reject(Reason("Lockdown mode active: command not in allowed_commands.", <<>>), 10))
    ELSE IF NetworkCheck(config, command).kind # "none" THEN NetworkCheck(config, command)
    ELSE IF s # 0
         THEN Decided(Reject(Reason("Blocked token detected", config.blocked_strings[s]), 10))
    ELSE IF p # 0
         THEN Decided(Reject(Reason("Blocked path access detected", config.blocked_paths[p]), 10))
    ELSE IF t # 0
         THEN Decided(Reject(Reason("Blocked tool detected", config.blocked_tools[t]), 10))
    ELSE IF _contains_base64_shell_exec(lowered_command)
         THEN Decided(Reject(Reason("Obfuscated payload execution pattern detected: base64 to shell.", <<>>), 10))
    ELSE NoDecision

\* The checks of _hard_kill_filter in their order, given the verdict of the
\* lockdown allowlist and the indexes of the first blocked string, path and
\* tool found (0 for none).
HardKillChecks(config, command, lowered_command, lockdown, s, p, t) ==
    IF Strip(command) = <<>>
    THEN Decided(Reject(Reason("Empty command is rejected under fail-closed policy.", <<>>), 10))
    ELSE IF lockdown = "Raise" THEN Raises("normalizing allowed_commands")
    ELSE IF lockdown = "False"
         THEN Decided(Reject(Reason("Lockdown mode active: command not in allowed_commands.", <<>>), 10))
    ELSE IF s # 0
         THEN Decided(Reject(Reason("Blocked token detected", config.blocked_strings[s]), 10))
    ELSE IF p # 0
         THEN Decided(Reject(Reason("Blocked path access detected", config.blocked_paths[p]), 10))
    ELSE IF t # 0
         THEN Decided(Reject(Reason("Blocked tool detected", config.blocked_tools[t]), 10))
    ELSE IF _contains_base64_shell_exec(lowered_command)
         THEN Decided(Reject(Reason("Obfuscated payload execution pattern detected: base64 to shell.", <<>>), 10))
    ELSE NetworkCheck(config, command)

\* A _hard_kill_filter that has no lockdown check.
_hard_kill_filter_without_lockdown(config, command) ==
    HardKillChecks(config, command, Lower(command), "True",
        FirstIndex(config.blocked_strings,
                   LAMBDA blocked : Contains(Lower(command), Lower(blocked))),
        FirstIndex(config.blocked_paths,
                   LAMBDA blocked_path : Contains(Lower(command), Lower(blocked_path))),
        _match_blocked_tool(config, command))

\* CommandAuditor._hard_kill_filter: a rejection, None, or a raised exception.
\* (The lockdown check runs only for a non-empty command in lockdown mode; an
\* empty command is rejected before it whatever the allowlist says.)
_hard_kill_filter(config, command) ==
    HardKillChecks(config, command, Lower(command),
        IF config.lockdown_mode THEN _is_allowed_in_lockdown(config, command) ELSE "True",
        FirstIndex(config.blocked_strings,
                   LAMBDA blocked : Contains(Lower(command), Lower(blocked))),
        FirstIndex(config.blocked_paths,
                   LAMBDA blocked_path : Contains(Lower(command), Lower(blocked_path))),
        _match_blocked_tool(config, command))

\* What one call of CommandAuditor.audit did before line 46: the outcome
\* (kind, decision) with the normalized command (<<>> when normalizing raised),
\* what the Hard-Kill Filter returned ("decision", "none" or "raise") and what
\* the allowlist check of line 40 returned ("skipped" when it was not reached).
Audited(outcome, normalized, hard_kill, allowlisted) ==
    [kind |-> outcome.kind, decision |-> outcome.decision,
     normalized |-> normalized, hard_kill |-> hard_kill, allowlisted |-> allowlisted]

\* Lines 36-44 with the allowlist consulted before the Hard-Kill Filter's
\* answer is looked at.
AuditNormalizedAllowlistFirst(config, llm_auditor, command, deterministic_decision, allowlisted) ==
    IF allowlisted = "True"
    THEN Audited(Decided(AuditDecision(TRUE, 0,
                     Reason("Command explicitly allowed by policy.", <<>>))),
                 <<command>>, deterministic_decision.kind, allowlisted)
    ELSE IF deterministic_decision.kind # "none"
    THEN Audited(deterministic_decision, <<command>>, deterministic_decision.kind, "skipped")
    ELSE IF allowlisted = "Raise"
         THEN Audited(Raises("normalizing allowed_commands"), <<command>>, "none", allowlisted)
    ELSE IF llm_auditor = None
         THEN Audited(Decided(Reject(Reason("LLM auditor unavailable; fail-closed policy applied.", <<>>), 9)),
                      <<command>>, "none", allowlisted)
    ELSE Audited(NoDecision, <<command>>, "none", allowlisted)

\* Lines 36-44 failing open: without a semantic auditor, a command that no
\* deterministic layer resolves is allowed.
AuditNormalizedFailOpen(config, llm_auditor, command, deterministic_decision, allowlisted) ==
    IF deterministic_decision.kind # "none"
    THEN Audited(deterministic_decision, <<command>>, deterministic_decision.kind, "skipped")
    ELSE IF allowlisted = "Raise"
         THEN Audited(Raises("normalizing allowed_commands"), <<command>>, "none", allowlisted)
    ELSE IF allowlisted = "True"
         THEN Audited(Decided(AuditDecision(TRUE, 0,
                          Reason("Command explicitly allowed by policy.", <<>>))),
                      <<command>>, "none", allowlisted)
    ELSE IF llm_auditor = None
         THEN Audited(Decided(AuditDecision(TRUE, 9,
                          Reason("LLM auditor unavailable", <<>>))),
                      <<command>>, "none", allowlisted)
    ELSE Audited(NoDecision, <<command>>, "none", allowlisted)

\* The part of CommandAuditor.audit after the command is normalized and
\* before the semantic auditor is consulted (lines 36-44).
AuditNormalized(config, llm_auditor, command, deterministic_decision, allowlisted) ==
    IF deterministic_decision.kind # "none"
    THEN Audited(deterministic_decision, <<command>>, deterministic_decision.kind, "skipped")
    ELSE IF allowlisted = "Raise"
         THEN Audited(Raises("normalizing allowed_commands"), <<command>>, "none", allowlisted)
    ELSE IF allowlisted = "True"
         THEN Audited(Decided(AuditDecision(TRUE, 0,
                          Reason("Command explicitly allowed by policy.", <<>>))),
                      <<command>>, "none", allowlisted)
    ELSE IF llm_auditor = None
         THEN Audited(Decided(Reject(Reason("LLM auditor unavailable; fail-closed policy applied.", <<>>), 9)),
                      <<command>>, "none", allowlisted)
    ELSE Audited(NoDecision, <<command>>, "none", allowlisted)
AuditOf(config, llm_auditor, normalized) ==
    IF ~normalized.ok
    THEN Audited(Raises("ValueError: chr() arg not in range(0x110000)"), <<>>,
                 "skipped", "skipped")
    ELSE AuditNormalized(config, llm_auditor, normalized.val,
                         _hard_kill_filter(config, normalized.val),
                         _is_allowed_in_lockdown(config, normalized.val))

\* The part of CommandAuditor.audit before the semantic auditor is consulted
\* (lines 34-44): a decision, a raised exception, or None (kind "none") when
\* line 46 is reached and the decision is the Semantic Auditor's. llm_auditor
\* is None or the auditor object.
AuditBeforeJudge(config, llm_auditor, command) ==
    AuditOf(config, llm_auditor, _normalize_command(command))

\* CommandAuditor.audit, given what self.llm_auditor.audit_command returns
\* for the normalized command when line 46 calls it.
OrJudge(early, llm_decision) ==
    IF early.kind = "none"
    THEN [early EXCEPT !.kind = "decision", !.decision = llm_decision]
    ELSE early
audit(config, llm_auditor, command, llm_decision) ==
    OrJudge(AuditBeforeJudge(config, llm_auditor, command), llm_decision)

-----------------------------------------------------------------------------
(* Policy Rule Engine (policy.py)                                            *)

\* re.match(pattern, string) for the patterns of the modelled policies: a
\* pattern of literal characters matches at the start of the string, and a
\* pattern with an unbalanced "(" makes re raise re.error (ok = FALSE).
ReMatch(pattern, string) ==
    IF Cardinality({i \in 1..Len(pattern) : pattern[i] = 40})
           # Cardinality({i \in 1..Len(pattern) : pattern[i] = 41})
    THEN [ok |-> FALSE, val |-> FALSE]
    ELSE [ok |-> TRUE, val |-> StartsWith(string, pattern)]

S_DefaultPolicy ==
    Str(<<"D", "e", "f", "a", "u", "l", "t", " ", "P", "o", "l", "i", "c", "y">>)

\* An evaluate in which the last matching rule wins.
evaluate_last_match(policy, command) ==
    LET cmd_str == Strip(command)
        matching == {k \in 1..Len(policy.rules) :
                        /\ policy.rules[k].pattern # <<>>
                        /\ ReMatch(policy.rules[k].pattern, cmd_str).ok
                        /\ ReMatch(policy.rules[k].pattern, cmd_str).val}
    IN  IF matching # {}
        THEN LET k == CHOOSE k \in matching : \A j \in matching : j <= k
             IN  [action |-> policy.rules[k].action,
                  rule_name |-> policy.rules[k].name,
                  reason |-> policy.rules[k].description]
        ELSE [action |-> policy.default_action,
              rule_name |-> S_DefaultPolicy,
              reason |-> "No specific rule matched, applying default action"]

\* PolicyEnforcer.evaluate: the first rule, in file order, with a non-empty
\* pattern that compiles and matches the stripped command; the default action
\* when there is none.
evaluate(policy, command) ==
    LET cmd_str == Strip(command)
        k == FirstIndex(policy.rules,
                        LAMBDA rule : /\ rule.pattern # <<>>
                                      /\ ReMatch(rule.pattern, cmd_str).ok
                                      /\ ReMatch(rule.pattern, cmd_str).val)
    IN  IF k # 0
        THEN [action |-> policy.rules[k].action,
              rule_name |-> policy.rules[k].name,
              reason |-> policy.rules[k].description]
        ELSE [action |-> policy.default_action,
              rule_name |-> S_DefaultPolicy,
              reason |-> "No specific rule matched, applying default action"]

\* The reason f"{label}: {rule_name} - {reason}" of a policy outcome.
PolicyReason(label, policy_result) ==
    [text |-> label, arg |-> policy_result.rule_name,
     detail |-> policy_result.reason, request_id |-> <<>>]

-----------------------------------------------------------------------------
(* Semantic Auditor (sentinel_auditor.py)                                    *)

\* SentinelAuditor.__init__, lines 49-51.
_max_requests_per_window == 10
_window_seconds == 60
_cooldown_seconds == 30

\* The state of a SentinelAuditor after construction (lines 47-48).
NewSentinelAuditor == [_request_history |-> <<>>, _last_cooldown_time |-> 0]

\* What _invoke_agent does for one prompt: it raises, or it returns a
\* response. A response is described by what its text holds: whether it
\* contains a {...} object that parses to a dictionary, and which of the keys
\* allowed, risk_score and reason that object has (<<>> for a missing key,
\* <<v>> for value v). An allowed value that is a bool is in the field
\* allowed; one that is not a bool is in allowed_text, as the text str()
\* makes of it.
JudgeRaises == [kind |-> "raise", json |-> FALSE, allowed |-> <<>>, allowed_text |-> <<>>,
                risk_score |-> <<>>, reason |-> <<>>]
JudgeText(json, allowed, risk_score, reason) ==
    [kind |-> "text", json |-> json, allowed |-> allowed, allowed_text |-> <<>>,
     risk_score |-> risk_score, reason |-> reason]
JudgeTextNotBool(allowed_text, risk_score, reason) ==
    [kind |-> "text", json |-> TRUE, allowed |-> <<>>, allowed_text |-> <<allowed_text>>,
     risk_score |-> risk_score, reason |-> reason]

S_true == Str(<<"t", "r", "u", "e">>)

\* _parse_json_response with a missing allowed read as an allow.
ParseFailOpen(response) ==
    IF ~response.json THEN Fail
    ELSE Ok([allowed |-> IF response.allowed # <<>> THEN response.allowed[1] ELSE TRUE,
             risk_score |-> IF response.risk_score # <<>> THEN response.risk_score[1] ELSE 10,
             reason |-> IF response.reason # <<>> THEN response.reason[1] ELSE ""])

\* SentinelAuditor._parse_json_response for a response that was returned:
\* Ok(data) with the defaults filled in, or Fail for the ValueErrors "No JSON
\* object found in response" and "Auditor output is not a dictionary.". Lines
\* 282-283 turn an allowed that is not a bool into str(v).lower() == "true",
\* lines 292-293 infer a missing allowed from risk_score < 5, lines 297-302
\* fill in what is still missing.
_parse_json_response(response) ==
    IF ~response.json THEN Fail
    ELSE Ok([allowed |->
                 IF response.allowed # <<>> THEN response.allowed[1]
                 ELSE IF response.allowed_text # <<>>
                 THEN Lower(response.allowed_text[1]) = S_true
                 ELSE IF response.risk_score # <<>> THEN response.risk_score[1] < 5
                 ELSE FALSE,
             risk_score |-> IF response.risk_score # <<>> THEN response.risk_score[1] ELSE 10,
             reason |-> IF response.reason # <<>> THEN response.reason[1]
                        ELSE "Semantic analysis completed (implied reason)."])

\* The while loop of audit_command that drops the timestamps older than the
\* window from the left of the queue.
PruneHistory(history, t) ==
    From(history, FirstFrom(1, Len(history),
                            LAMBDA j : ~(history[j] < t - _window_seconds)))

\* What lines 108-117 return for what _invoke_agent did.
JudgedDecision(response, parsed) ==
    IF response.kind = "raise" \/ ~parsed.ok
    THEN Reject(Reason("LLM auditor failure", <<>>), 10)
    ELSE AuditDecision(parsed.val.allowed, Clamp(parsed.val.risk_score),
             Reason(IF parsed.val.reason = "" THEN "No reason provided"
                    ELSE parsed.val.reason, <<>>))

\* audit_command without the throttling check of lines 83-91.
audit_command_unlimited(self, t, response) ==
    [decision |-> JudgedDecision(response, _parse_json_response(response)),
     self |-> [self EXCEPT !._request_history =
                              Append(PruneHistory(self._request_history, t), t)],
     invoked |-> TRUE]

\* audit_command with a failure of the judge read as an allow.
audit_command_fail_open(self, t, response) ==
    [decision |-> IF response.kind = "raise" \/ ~response.json
                  THEN AuditDecision(TRUE, 0, Reason("LLM auditor failure", <<>>))
                  ELSE JudgedDecision(response, _parse_json_response(response)),
     self |-> [self EXCEPT !._request_history =
                              Append(PruneHistory(self._request_history, t), t)],
     invoked |-> TRUE]

\* An audit_command whose throttled calls during a cooldown start the
\* cooldown again.
audit_command_extending_cooldown(self, t, response) ==
    LET history == PruneHistory(self._request_history, t)
        pruned == [self EXCEPT !._request_history = history]
        parsed == _parse_json_response(response)
    IN  IF t < self._last_cooldown_time + _cooldown_seconds
        THEN [decision |-> Reject(Reason("Sentinel Throttle: Cool-down active.", <<>>), 5),
              self |-> [pruned EXCEPT !._last_cooldown_time = t], invoked |-> FALSE]
        ELSE IF Len(history) >= _max_requests_per_window
        THEN [decision |-> Reject(Reason("Sentinel Throttle: Limit exceeded (10 req/60s). Cooling down...", <<>>), 5),
              self |-> [pruned EXCEPT !._last_cooldown_time = t], invoked |-> FALSE]
        ELSE [decision |-> JudgedDecision(response, parsed),
              self |-> [pruned EXCEPT !._request_history = Append(history, t)],
              invoked |-> TRUE]

\* SentinelAuditor.audit_command at time t, given what _invoke_agent does if
\* it is called: the decision, the auditor's state afterwards, and whether
\* _invoke_agent was called.
audit_command(self, t, response) ==
    LET history == PruneHistory(self._request_history, t)
        pruned == [self EXCEPT !._request_history = history]
        parsed == _parse_json_response(response)
    IN  IF t < self._last_cooldown_time + _cooldown_seconds
        THEN [decision |-> Reject(Reason("Sentinel Throttle: Cool-down active.", <<>>), 5),
              self |-> pruned, invoked |-> FALSE]
        ELSE IF Len(history) >= _max_requests_per_window
        THEN [decision |-> Reject(Reason("Sentinel Throttle: Limit exceeded (10 req/60s). Cooling down...", <<>>), 5),
              self |-> [pruned EXCEPT !._last_cooldown_time = t], invoked |-> FALSE]
        ELSE [decision |-> JudgedDecision(response, parsed),
              self |-> [pruned EXCEPT !._request_history = Append(history, t)],
              invoked |-> TRUE]

-----------------------------------------------------------------------------
(* Deployments and inputs                                                    *)

\* Bounds of the model: the number of HTTP requests the gateway handles, the
\* number of direct calls of run_intercepted_command, and the clock at startup.
MaxCalls == 3
MaxRuns == 2
StartTime == 1000

\* The constitution: the defaults of _load_config (lines 280-310) with one
\* whitelisted domain and one allowed command.
S_sudo == Str(<<"s", "u", "d", "o">>)
S_rm_rf == Str(<<"r", "m", " ", "-", "r", "f">>)
S_mkfs == Str(<<"m", "k", "f", "s">>)
S_ssh == Str(<<"~", "/", ".", "s", "s", "h">>)
S_dotenv == Str(<<"~", "/", ".", "e", "n", "v">>)
S_etc == Str(<<"/", "e", "t", "c", "/">>)
S_pip == Str(<<"p", "i", "p">>)
S_npm == Str(<<"n", "p", "m">>)
S_curl == Str(<<"c", "u", "r", "l">>)
S_wget == Str(<<"w", "g", "e", "t">>)
S_e_com == Str(<<"e", ".", "c", "o", "m">>)
S_ls == Str(<<"l", "s">>)
S_git_status == Str(<<"g", "i", "t", " ", "s", "t", "a", "t", "u", "s">>)
S_git_push == Str(<<"g", "i", "t", " ", "p", "u", "s", "h">>)
S_rm == Str(<<"r", "m", " ">>)
S_whoami == Str(<<"w", "h", "o", "a", "m", "i">>)

Constitution ==
    [blocked_strings |-> <<S_sudo, S_rm_rf, S_mkfs>>,
     blocked_paths |-> <<S_ssh, S_dotenv, S_etc>>,
     blocked_tools |-> <<S_python, S_pip, S_npm>>,
     blocked_network_tools |-> <<S_curl, S_wget>>,
     whitelisted_domains |-> <<S_e_com>>,
     lockdown_mode |-> FALSE,
     allowed_commands |-> <<S_ls>>]

\* The policies: a policy file with one rule per action (and one rule whose
\* regex does not compile) that sends every other command to the Command
\* Auditor, and the safe default _load_policy uses when the file is missing.
PolicyFile ==
    [default_action |-> "audit",
     rules |-> <<[pattern |-> <<40>>, action |-> "allow",
                  name |-> Str(<<"b", "a", "d">>), description |-> "unbalanced"],
                 [pattern |-> S_git_status, action |-> "allow",
                  name |-> Str(<<"s", "t", "a", "t", "u", "s">>), description |-> "read only"],
                 [pattern |-> S_rm, action |-> "block",
                  name |-> Str(<<"r", "m">>), description |-> "no deletion"],
                 [pattern |-> S_git_push, action |-> "review",
                  name |-> Str(<<"p", "u", "s", "h">>), description |-> "needs approval"]>>]
NoPolicyFile == [default_action |-> "block", rules |-> <<>>]
Policies == {PolicyFile, NoPolicyFile}

\* The environments of _requires_auth and _get_auth_token, and the headers.
Secret == <<"secret">>
AuthEnvs ==
    {[requires_auth |-> FALSE, token |-> <<>>],
     [requires_auth |-> TRUE, token |-> <<>>],
     [requires_auth |-> TRUE, token |-> Secret]}
Tokens == {<<>>, Secret}

\* The commands given to the Runtime and to the Command Auditor.
S_curl_http == S_curl \o Str(<<" ", "h", "t", "t", "p", ":", "/", "/">>)
Commands ==
    {S_git_status,
     S_rm_rf \o Str(<<" ", "/">>),
     S_git_push,
     S_git_push \o Str(<<" ">>) \o <<SQUOTE>> \o Str(<<"x">>),
     S_ls,
     S_sudo \o Str(<<" ", "l", "s">>),
     S_whoami,
     Str(<<"e", "c", "h", "o", " ">>) \o <<BACKSLASH>>
         \o Str(<<"U", "0", "0", "1", "1", "0", "0", "0", "0">>),
     S_curl_http \o Str(<<"e", ".", "c", "o", "m", "/", "a">>),
     S_curl_http \o Str(<<"[", "x">>),
     Str(<<" ">>)}

\* Commands that normalization changes: "ls \x2dl", which normalizes to
\* "ls -l", and "git  status" (two spaces), which normalizes to "git status".
S_ls_x2dl == S_ls \o Str(<<" ">>) \o <<BACKSLASH>> \o Str(<<"x", "2", "d", "l">>)
S_git_2sp_status == Str(<<"g", "i", "t", " ", " ", "s", "t", "a", "t", "u", "s">>)
RawCommands == {S_ls_x2dl, S_git_2sp_status}

\* The commands POSTed to /audit: one per policy action of PolicyFile (allow,
\* review with a command shlex can and cannot split, audit) and an empty one.
HttpCommands ==
    {S_git_status,
     S_git_push,
     S_git_push \o Str(<<" ">>) \o <<SQUOTE>> \o Str(<<"x">>),
     S_whoami,
     Str(<<" ">>)}

\* What subprocess.run does with a command: it completes with an exit code,
\* raises TimeoutExpired (with the output captured so far, "" for None), or
\* raises another exception (the executable does not exist, ...).
Completed(returncode, stdout, stderr) ==
    [kind |-> "completed", returncode |-> returncode, stdout |-> stdout, stderr |-> stderr]
TimeoutExpired(stdout, stderr) ==
    [kind |-> "timeout", returncode |-> 0, stdout |-> stdout, stderr |-> stderr]
ExecException(message) ==
    [kind |-> "exception", returncode |-> 0, stdout |-> "", stderr |-> message]

\* What the external judge and the host do.
JudgeResponses ==
    {JudgeRaises,
     JudgeText(TRUE, <<TRUE>>, <<2>>, <<"harmless">>),
     JudgeText(TRUE, <<FALSE>>, <<8>>, <<"dangerous">>)}
ExecOutcomes ==
    {Completed(0, "out", ""), Completed(1, "", "err"),
     TimeoutExpired("", ""), ExecException("No such file or directory")}

\* The workers of the thread pool that serve /approve, and a request id no
\* PendingRequest has.
Workers == {"w1", "w2"}
UnknownId == <<"uuid", 0>>

\* The string functions applied to the commands and deployments above, as
\* tables: a call on one of these inputs is a lookup.
LlmAuditors == {None, "SentinelAuditor"}
AuditBeforeJudgeTable ==
    [llm_auditor \in LlmAuditors |->
        [command \in Commands \cup RawCommands |->
            AuditBeforeJudge(Constitution, llm_auditor, command)]]
ShlexTable == [command \in Commands \cup RawCommands |-> ShlexSplit(command)]
EvaluateTable ==
    [policy \in Policies |->
        [command \in Commands \cup RawCommands |-> evaluate(policy, command)]]
\* Lines 206-207 of main.py: shell_operators, and the test of use_shell.
shell_operators ==
    {<<124>>, <<62>>, <<38, 38>>, <<59>>, <<60, 60>>, <<62, 62>>}
AnyShellOperator(cmd_string) == \E op \in shell_operators : Contains(cmd_string, op)
UseShellTable == [command \in Commands \cup RawCommands |-> AnyShellOperator(command)]

\* self.command_auditor.audit(cmd_string) up to line 46, shlex.split and
\* self.policy_enforcer.evaluate(cmd_string) as the Runtime calls them.
CommandAuditorAudit(rt, command) == AuditBeforeJudgeTable[rt.llm_auditor][command]
shlex_split(command) == ShlexTable[command]
policy_enforcer_evaluate(rt, command) == EvaluateTable[rt.policy][command]

-----------------------------------------------------------------------------
(* Audit log of the Runtime (main.py, lines 79-107)                          *)

\* _get_audit_logger: the cached logger, or the one _build_audit_logger
\* returns; None when building raises (the log directory or file cannot be
\* created), which is what build_ok tells.
_get_audit_logger(_AUDIT_LOGGER, build_ok) ==
    IF _AUDIT_LOGGER # None THEN _AUDIT_LOGGER
    ELSE IF build_ok THEN "sentinel.audit" ELSE None

\* The event _log_audit_event builds from a payload.
AuditEvent(command, payload) ==
    [command |-> command,
     allowed |-> payload.allowed,
     risk_score |-> payload.risk_score,
     reason |-> payload.reason,
     returncode |-> payload.returncode]

\* An audit log that drops every event.
LogNothing(file, logger, command, payload) == file

\* _log_audit_event: the audit log file after the call. Nothing is written
\* when there is no logger.
_log_audit_event(file, logger, command, payload) ==
    IF logger = None THEN file ELSE Append(file, AuditEvent(command, payload))

-----------------------------------------------------------------------------
(* SentinelRuntime.run_intercepted_command (main.py, lines 150-260)          *)

\* payload.update({"returncode": None, "stdout": "", "stderr": ""}); an
\* optional value is <<>> for None/absent and <<v>> for v.
NoExecution == [returncode |-> <<>>, stdout |-> "", stderr |-> ""]

\* decision.to_dict() extended with the execution fields x and, for a review
\* outcome, the key "status".
Payload(decision, status, x) ==
    [allowed |-> to_dict(decision).allowed,
     risk_score |-> to_dict(decision).risk_score,
     reason |-> to_dict(decision).reason,
     status |-> status,
     returncode |-> x.returncode, stdout |-> x.stdout, stderr |-> x.stderr]

\* Lines 206-207: use_shell.
use_shell(cmd_string) == UseShellTable[cmd_string]

\* Line 191 and lines 182-186: the decisions the Runtime synthesizes.
BypassDecision == AuditDecision(TRUE, 0, Reason("User Approved via HITL", <<>>))
PolicyAllowDecision(policy_result) ==
    AuditDecision(TRUE, 0, Reason("Allowed by policy", policy_result.rule_name))

\* How a call reached line 196, or returned or raised before it. kind is
\* "terminal" for the policy outcomes that return at once (block, review),
\* "decision" when `decision` is set and the call goes on to line 196, "raise"
\* when CommandAuditor.audit raised. policy is <<>> when the Policy Rule
\* Engine was not evaluated, else <<policy_result>>; audit is <<>> when
\* CommandAuditor.audit was not called, else what it did; judged and invoked
\* tell whether SentinelAuditor.audit_command and _invoke_agent were called;
\* sentinel_auditor is the Semantic Auditor's state afterwards.
Path(kind, policy, audited, judged, invoked, decision, status, sentinel_auditor) ==
    [kind |-> kind, policy |-> policy, audit |-> audited, judged |-> judged,
     invoked |-> invoked, decision |-> decision, status |-> status,
     sentinel_auditor |-> sentinel_auditor]

\* Line 193 (and line 46 of command_auditor.py, when it is reached): early is
\* what CommandAuditor.audit did before line 46, sem what audit_command does.
DecideByAudit(rt, policy, early, sem) ==
    IF early.kind = "raise"
    THEN Path("raise", policy, <<early>>, FALSE, FALSE, early.decision, <<>>,
              rt.sentinel_auditor)
    ELSE IF early.kind = "decision"
    THEN Path("decision", policy, <<early>>, FALSE, FALSE, early.decision, <<>>,
              rt.sentinel_auditor)
    ELSE Path("decision", policy, <<OrJudge(early, sem.decision)>>, TRUE, sem.invoked,
              sem.decision, <<>>, sem.self)

\* Lines 155-193 with a policy `allow` that is still sent to the Command
\* Auditor.
DecideByPolicyAuditingAllow(rt, cmd_string, t, response, policy_result) ==
    IF policy_result.action = "block"
    THEN Path("terminal", <<policy_result>>, <<>>, FALSE, FALSE,
              Reject(PolicyReason("Policy Violation", policy_result), 10), <<>>,
              rt.sentinel_auditor)
    ELSE IF policy_result.action = "review"
    THEN Path("terminal", <<policy_result>>, <<>>, FALSE, FALSE,
              Reject(PolicyReason("Review Required", policy_result), 5),
              <<"review_required">>, rt.sentinel_auditor)
    ELSE DecideByAudit(rt, <<policy_result>>, CommandAuditorAudit(rt, cmd_string),
                       audit_command(rt.sentinel_auditor, t, response))

\* Lines 155-193 with every command the policy does not block or send to
\* review allowed without the Command Auditor.
DecideByPolicyAlone(rt, cmd_string, t, response, policy_result) ==
    IF policy_result.action = "block"
    THEN Path("terminal", <<policy_result>>, <<>>, FALSE, FALSE,
              Reject(PolicyReason("Policy Violation", policy_result), 10), <<>>,
              rt.sentinel_auditor)
    ELSE IF policy_result.action = "review"
    THEN Path("terminal", <<policy_result>>, <<>>, FALSE, FALSE,
              Reject(PolicyReason("Review Required", policy_result), 5),
              <<"review_required">>, rt.sentinel_auditor)
    ELSE Path("decision", <<policy_result>>, <<>>, FALSE, FALSE,
              PolicyAllowDecision(policy_result), <<>>, rt.sentinel_auditor)

\* Lines 155-193 for a call that does not bypass the policy.
DecideByPolicy(rt, cmd_string, t, response, policy_result) ==
    IF policy_result.action = "block"
    THEN Path("terminal", <<policy_result>>, <<>>, FALSE, FALSE,
              Reject(PolicyReason("Policy Violation", policy_result), 10), <<>>,
              rt.sentinel_auditor)
    ELSE IF policy_result.action = "review"
    THEN Path("terminal", <<policy_result>>, <<>>, FALSE, FALSE,
              Reject(PolicyReason("Review Required", policy_result), 5),
              <<"review_required">>, rt.sentinel_auditor)
    ELSE IF policy_result.action = "allow"
    THEN Path("decision", <<policy_result>>, <<>>, FALSE, FALSE,
              PolicyAllowDecision(policy_result), <<>>, rt.sentinel_auditor)
    ELSE DecideByAudit(rt, <<policy_result>>, CommandAuditorAudit(rt, cmd_string),
                       audit_command(rt.sentinel_auditor, t, response))

\* Lines 151-194 with a bypass that skips the Policy Rule Engine only: the
\* Command Auditor still decides.
DecideAuditingBypass(rt, cmd_string, bypass_policy, t, response) ==
    IF bypass_policy
    THEN DecideByAudit(rt, <<>>, CommandAuditorAudit(rt, cmd_string),
                       audit_command(rt.sentinel_auditor, t, response))
    ELSE DecideByPolicy(rt, cmd_string, t, response,
                        policy_enforcer_evaluate(rt, cmd_string))

\* Lines 151-194: how a call reaches its decision.
Decide(rt, cmd_string, bypass_policy, t, response) ==
    IF bypass_policy
    THEN Path("decision", <<>>, <<>>, FALSE, FALSE, BypassDecision, <<>>, rt.sentinel_auditor)
    ELSE DecideByPolicy(rt, cmd_string, t, response,
                        policy_enforcer_evaluate(rt, cmd_string))

\* Lines 213-260 without the except clauses: whatever subprocess.run did, the
\* decision's payload is returned.
SubprocessIgnoringFailure(decision, call, outcome) ==
    [exec |-> <<call>>, outcome |-> <<outcome>>,
     payload |-> Payload(decision, <<>>,
                         [returncode |-> IF outcome.kind = "completed"
                                         THEN <<outcome.returncode>> ELSE <<>>,
                          stdout |-> outcome.stdout, stderr |-> outcome.stderr])]

\* Lines 213-260 with check=True: a non-zero exit is an execution error.
SubprocessRejectingNonZero(decision, call, outcome) ==
    IF outcome.kind = "completed" /\ outcome.returncode = 0
    THEN [exec |-> <<call>>, outcome |-> <<outcome>>,
          payload |-> Payload(decision, <<>>,
                              [returncode |-> <<outcome.returncode>>,
                               stdout |-> outcome.stdout, stderr |-> outcome.stderr])]
    ELSE [exec |-> <<call>>, outcome |-> <<outcome>>,
          payload |-> Payload(Reject(Reason("Command execution failed", <<>>), 10), <<>>,
                              [returncode |-> <<>>, stdout |-> "", stderr |-> outcome.stderr])]

\* Lines 213-260: subprocess.run(cmd_args, shell=use_shell, ...) and what the
\* Runtime makes of its outcome.
Subprocess(decision, call, outcome) ==
    IF outcome.kind = "timeout"
    THEN [exec |-> <<call>>, outcome |-> <<outcome>>,
          payload |-> Payload(Reject(Reason("Command execution timed out", <<>>), 10), <<>>,
                              [returncode |-> <<>>,
                               stdout |-> outcome.stdout,
                               stderr |-> IF outcome.stderr = "" THEN "Execution timeout"
                                          ELSE outcome.stderr])]
    ELSE IF outcome.kind = "exception"
    THEN [exec |-> <<call>>, outcome |-> <<outcome>>,
          payload |-> Payload(Reject(Reason("Command execution failed", <<>>), 10), <<>>,
                              [returncode |-> <<>>, stdout |-> "", stderr |-> outcome.stderr])]
    ELSE [exec |-> <<call>>, outcome |-> <<outcome>>,
          payload |-> Payload(decision, <<>>,
                              [returncode |-> <<outcome.returncode>>,
                               stdout |-> outcome.stdout, stderr |-> outcome.stderr])]

\* An execution of the normalized command instead of the raw one.
ExecuteNormalized(decision, cmd_string, outcome) ==
    LET normalized == _normalize_command(cmd_string).val
    IN  IF AnyShellOperator(normalized)
        THEN Subprocess(decision, [args |-> <<normalized>>, shell |-> TRUE], outcome)
        ELSE IF ~ShlexSplit(normalized).ok
        THEN [exec |-> <<>>, outcome |-> <<>>,
              payload |-> Payload(Reject(Reason("Command parsing failed", <<>>), 10),
                                  <<>>, NoExecution)]
        ELSE Subprocess(decision, [args |-> ShlexSplit(normalized).val, shell |-> FALSE],
                        outcome)

\* Lines 203-260 for a call whose decision is allowed: exec is the sequence of
\* the calls of subprocess.run made (none or one), outcome what that call did,
\* payload what is logged and returned.
Execute(decision, cmd_string, outcome) ==
    IF use_shell(cmd_string)
    THEN Subprocess(decision, [args |-> <<cmd_string>>, shell |-> TRUE], outcome)
    ELSE IF ~shlex_split(cmd_string).ok
    THEN [exec |-> <<>>, outcome |-> <<>>,
          payload |-> Payload(Reject(Reason("Command parsing failed", <<>>), 10),
                              <<>>, NoExecution)]
    ELSE Subprocess(decision, [args |-> shlex_split(cmd_string).val, shell |-> FALSE], outcome)

\* Lines 196-201 without the test of decision.allowed.
FinishExecuting(d, cmd_string, outcome) ==
    IF d.kind = "decision"
    THEN Execute(d.decision, cmd_string, outcome)
    ELSE [exec |-> <<>>, outcome |-> <<>>,
          payload |-> Payload(d.decision, d.status, NoExecution)]

\* Lines 196-201: a decision that is not allowed is logged and returned.
Finish(d, cmd_string, outcome) ==
    IF d.kind = "decision" /\ d.decision.allowed
    THEN Execute(d.decision, cmd_string, outcome)
    ELSE [exec |-> <<>>, outcome |-> <<>>,
          payload |-> Payload(d.decision, d.status, NoExecution)]

\* The trace of one call: raised tells that the call ended in an exception, in
\* which case there is no decision and no payload (<<>>); exec are the calls
\* of subprocess.run, outcome what the call of subprocess.run did (<<>> when
\* there was none), judge what _invoke_agent did (<<>> when it was not
\* called), prompt the command SentinelAuditor.audit_command was given at
\* line 46 of command_auditor.py (<<>> when it was not called) and events the
\* payloads given to _log_audit_event, in order; payload is what the call
\* returned.
Trace(cmd_string, bypass_policy, d, response, x) ==
    [called |-> TRUE,
     cmd_string |-> cmd_string,
     bypass_policy |-> bypass_policy,
     raised |-> d.kind = "raise",
     policy |-> d.policy,
     audit |-> d.audit,
     judged |-> d.judged,
     invoked |-> d.invoked,
     judge |-> IF d.invoked THEN <<response>> ELSE <<>>,
     prompt |-> IF d.judged THEN d.audit[1].normalized ELSE <<>>,
     decision |-> IF d.kind = "raise" THEN <<>> ELSE <<d.decision>>,
     exec |-> IF d.kind = "raise" THEN <<>> ELSE x.exec,
     outcome |-> IF d.kind = "raise" THEN <<>> ELSE x.outcome,
     payload |-> IF d.kind = "raise" THEN <<>> ELSE <<x.payload>>,
     events |-> IF d.kind = "raise" THEN <<>> ELSE <<x.payload>>,
     sentinel_auditor |-> d.sentinel_auditor]
Traced(cmd_string, bypass_policy, d, response, outcome) ==
    Trace(cmd_string, bypass_policy, d, response, Finish(d, cmd_string, outcome))

\* run_intercepted_command as a whole, at time t, given what the judge and
\* the host do if they are called.
run_intercepted_command(rt, cmd_string, bypass_policy, t, response, outcome) ==
    Traced(cmd_string, bypass_policy,
           Decide(rt, cmd_string, bypass_policy, t, response), response, outcome)

\* The trace of a handler that did not call run_intercepted_command.
NoRun ==
    [called |-> FALSE, cmd_string |-> <<>>, bypass_policy |-> FALSE, raised |-> FALSE,
     policy |-> <<>>, audit |-> <<>>, judged |-> FALSE, invoked |-> FALSE, judge |-> <<>>,
     prompt |-> <<>>, decision |-> <<>>, exec |-> <<>>, outcome |-> <<>>,
     payload |-> <<>>, events |-> <<>>, sentinel_auditor |-> NewSentinelAuditor]

-----------------------------------------------------------------------------
(* Approval Store (sentinel_approvals.py, sentinel_db.py)                    *)

\* The approvals table as a function from id to row. INSERT raises
\* sqlite3.IntegrityError when the primary key exists (ok = FALSE).
insert_approval(approvals, request) ==
    IF request.id \in DOMAIN approvals
    THEN [ok |-> FALSE, approvals |-> approvals]
    ELSE [ok |-> TRUE,
          approvals |-> [i \in DOMAIN approvals \cup {request.id} |->
                            IF i = request.id
                            THEN [command |-> request.command, status |-> request.status,
                                  rule_name |-> request.rule_name, reason |-> request.reason]
                            ELSE approvals[i]]]

\* A lookup that reports every row as pending.
get_approval_pending(approvals, request_id) ==
    IF request_id \in DOMAIN approvals
    THEN <<[id |-> request_id,
            command |-> approvals[request_id].command,
            status |-> "pending",
            rule_name |-> approvals[request_id].rule_name,
            reason |-> approvals[request_id].reason]>>
    ELSE <<>>

\* SentinelDB.get_approval: <<>> for None, else <<PendingRequest>>.
get_approval(approvals, request_id) ==
    IF request_id \in DOMAIN approvals
    THEN <<[id |-> request_id,
            command |-> approvals[request_id].command,
            status |-> approvals[request_id].status,
            rule_name |-> approvals[request_id].rule_name,
            reason |-> approvals[request_id].reason]>>
    ELSE <<>>

\* An update that deletes the row instead.
update_approval_status_deleting(approvals, request_id, status) ==
    [i \in DOMAIN approvals \ {request_id} |-> approvals[i]]

\* SentinelDB.update_approval_status: UPDATE ... WHERE id = ?
update_approval_status(approvals, request_id, status) ==
    [i \in DOMAIN approvals |->
        IF i = request_id THEN [approvals[i] EXCEPT !.status = status] ELSE approvals[i]]

\* SentinelDB.get_pending_approvals: the ids of the rows it returns.
get_pending_approvals(approvals) ==
    {i \in DOMAIN approvals : approvals[i].status = "pending"}

\* str(uuid.uuid4()): an id no row has yet. Ids are numbered in the order
\* they are given; rows are never deleted.
uuid4(approvals) == <<"uuid", Cardinality(DOMAIN approvals) + 1>>

\* A create_request that stores the request as already approved.
create_request_approved(approvals, req_id, command, rule_name, reason) ==
    insert_approval(approvals,
        [id |-> req_id, command |-> command, rule_name |-> rule_name,
         reason |-> reason, status |-> "approved"])

\* ApprovalManager.create_request with the id uuid4 gave.
create_request(approvals, req_id, command, rule_name, reason) ==
    insert_approval(approvals,
        [id |-> req_id, command |-> command, rule_name |-> rule_name,
         reason |-> reason, status |-> "pending"])

\* A resolve_request that stores the status under an id that has no row.
resolve_request_upserting(approvals, req_id, status) ==
    IF req_id \in DOMAIN approvals
    THEN [approvals |-> update_approval_status(approvals, req_id, status), result |-> TRUE]
    ELSE [approvals |-> [i \in DOMAIN approvals \cup {req_id} |->
                            IF i = req_id
                            THEN [command |-> <<>>, status |-> status,
                                  rule_name |-> <<>>, reason |-> ""]
                            ELSE approvals[i]],
          result |-> TRUE]

\* A resolve_request that changes nothing.
resolve_request_noop(approvals, req_id, status) ==
    [approvals |-> approvals, result |-> get_approval(approvals, req_id) # <<>>]

\* ApprovalManager.resolve_request: the table afterwards and the value returned.
resolve_request(approvals, req_id, status) ==
    IF get_approval(approvals, req_id) # <<>>
    THEN [approvals |-> update_approval_status(approvals, req_id, status), result |-> TRUE]
    ELSE [approvals |-> approvals, result |-> FALSE]

\* SentinelDB.log_audit: the row appended to audit_logs.
log_audit(audit_logs, command, result) ==
    Append(audit_logs,
           [command |-> command, allowed |-> result.allowed,
            risk_score |-> result.risk_score, reason |-> result.reason,
            details |-> result])

-----------------------------------------------------------------------------
(* HTTP gateway (sentinel_server.py)                                         *)

\* A _verify_auth that accepts a request without a token.
_verify_auth_any_token(auth, x_sentinel_token) ==
    IF ~auth.requires_auth THEN 200
    ELSE IF auth.token = <<>> THEN 503
    ELSE IF x_sentinel_token # auth.token /\ x_sentinel_token # <<>> THEN 401
    ELSE 200

\* _verify_auth: 200 when the request may proceed, else the status code of
\* the HTTPException. auth is the environment: requires_auth is what
\* _requires_auth() returns and token what _get_auth_token() returns (<<>> for
\* None); x_sentinel_token is the header (<<>> when absent).
_verify_auth(auth, x_sentinel_token) ==
    IF ~auth.requires_auth THEN 200
    ELSE IF auth.token = <<>> THEN 503
    ELSE IF x_sentinel_token # auth.token THEN 401
    ELSE 200

\* The body /audit returns for an empty command (lines 128-136).
EmptyCommandBody ==
    Payload(AuditDecision(FALSE, 10, Reason("Empty command", <<>>)), <<>>, NoExecution)

\* Line 148: result["reason"] = f"{reason} [Request ID: {req_id}]"
WithRequestId(result, req_id) == [result EXCEPT !.reason.request_id = <<req_id>>]

-----------------------------------------------------------------------------
(* The gateway as a state machine                                            *)

VARIABLES
    runtime,          \* the SentinelRuntime: policy, constitution, llm_auditor, sentinel_auditor
    auth,             \* the environment read by _verify_auth
    build_ok,         \* whether _build_audit_logger can create the log file
    _AUDIT_LOGGER,    \* main.py's global
    audit_log_file,   \* the lines of the Runtime's audit log
    approvals,        \* table approvals
    audit_logs,       \* table audit_logs
    host_exec,        \* the calls of subprocess.run made so far
    inflight,         \* per worker: the request it holds between its check and its run
    last,             \* the request handled last and its response
    calls,            \* the number of requests received
    now               \* time.time()

vars == <<runtime, auth, build_ok, _AUDIT_LOGGER, audit_log_file, approvals, audit_logs,
          host_exec, inflight, last, calls, now>>

\* A response: the handler, its inputs, the row get_request returned (req),
\* the trace of the run it made, what CommandAuditor.audit did for /audit-only
\* (audit), the id of the PendingRequest it created, the ids /pending listed,
\* the HTTP status (0 while the handler has not answered) and, for status 200,
\* the body returned.
Response(endpoint, command, request_id, req, run, audited, created, pending, status_code, body) ==
    [endpoint |-> endpoint, command |-> command, request_id |-> request_id, req |-> req,
     run |-> run, audit |-> audited, created |-> created, pending |-> pending,
     status_code |-> status_code, body |-> body]

\* The state after startup_event: a deployment (policy file present or not,
\* semantic auditor constructed or not, auth environment, audit log writable
\* or not) with an empty store.
Init ==
    /\ runtime \in [policy : Policies, constitution : {Constitution},
                    llm_auditor : LlmAuditors,
                    sentinel_auditor : {NewSentinelAuditor}]
    /\ auth \in AuthEnvs
    /\ build_ok \in BOOLEAN
    /\ _AUDIT_LOGGER = None
    /\ audit_log_file = <<>>
    /\ approvals = [i \in {} |-> None]
    /\ audit_logs = <<>>
    /\ host_exec = <<>>
    /\ inflight = [w \in Workers |-> <<>>]
    /\ last = Response("startup", <<>>, UnknownId, <<>>, NoRun, <<>>, <<>>, {}, 200, <<>>)
    /\ calls = 0
    /\ now = StartTime

\* The effects of one call of run_intercepted_command with trace r on the
\* state outside the handler.
RunEffects(r) ==
    /\ runtime' = [runtime EXCEPT !.sentinel_auditor = r.sentinel_auditor]
    /\ host_exec' = host_exec \o r.exec
    /\ _AUDIT_LOGGER' = IF r.events = <<>> THEN _AUDIT_LOGGER
                        ELSE _get_audit_logger(_AUDIT_LOGGER, build_ok)
    /\ audit_log_file' = IF r.events = <<>> THEN audit_log_file
                         ELSE _log_audit_event(audit_log_file,
                                               _get_audit_logger(_AUDIT_LOGGER, build_ok),
                                               r.cmd_string, r.events[1])

\* The judge answers only if it is asked and the host acts only if
\* subprocess.run is called, which raises when it is given no arguments.
DefaultOutcome == Completed(0, "out", "")
Consumed(r, response, outcome) ==
    /\ r.invoked \/ response = JudgeRaises
    /\ r.exec # <<>> \/ outcome = DefaultOutcome
    /\ r.exec # <<>> /\ r.exec[1].args = <<>> => outcome.kind = "exception"

\* A request that is answered without touching anything.
Refused(endpoint, command, request_id, req, pending, status_code, body) ==
    /\ last' = Response(endpoint, command, request_id, req, NoRun, <<>>, <<>>, pending,
                        status_code, body)
    /\ UNCHANGED <<runtime, _AUDIT_LOGGER, audit_log_file, approvals, audit_logs,
                   host_exec, inflight>>

\* A request arrives: the clock has moved on.
Arrives(bound) ==
    /\ calls < bound
    /\ calls' = calls + 1
    /\ now' = now + 1
    /\ UNCHANGED <<auth, build_ok>>

\* POST /audit, lines 138-158, for the run with trace r: the HITL hook (lines
\* 143-150), the audit_logs row (lines 153-154). An exception of the run ends
\* the request with status 500.
AuditRun(command, r) ==
    IF r.raised
    THEN /\ RunEffects(r)
         /\ last' = Response("audit", command, UnknownId, <<>>, r, <<>>, <<>>, {}, 500, <<>>)
         /\ UNCHANGED <<approvals, audit_logs, inflight>>
    ELSE \E review \in {r.payload[1].status = <<"review_required">>},
            req_id \in {uuid4(approvals)} :
         \E result \in {IF review THEN WithRequestId(r.payload[1], req_id)
                        ELSE r.payload[1]} :
            /\ RunEffects(r)
            /\ approvals' = IF review
                            THEN create_request(approvals, req_id, command, "Policy Review",
                                                r.payload[1].reason).approvals
                            ELSE approvals
            /\ audit_logs' = log_audit(audit_logs, command, result)
            /\ last' = Response("audit", command, UnknownId, <<>>, r, <<>>,
                                IF review THEN <<req_id>> ELSE <<>>, {}, 200, <<result>>)
            /\ UNCHANGED inflight

\* POST /audit (audit_command) with the header x_sentinel_token.
AuditCommandBy(x_sentinel_token) ==
    /\ Arrives(MaxCalls)
    /\ \E command \in HttpCommands :
       \E status \in {_verify_auth(auth, x_sentinel_token)} :
          IF status # 200
          THEN Refused("audit", command, UnknownId, <<>>, {}, status, <<>>)
          ELSE IF Strip(command) = <<>>
          THEN Refused("audit", command, UnknownId, <<>>, {}, 200, <<EmptyCommandBody>>)
          ELSE \E response \in JudgeResponses, outcome \in ExecOutcomes :
               \E r \in {run_intercepted_command(runtime, command, FALSE, now,
                                                 response, outcome)} :
                  /\ Consumed(r, response, outcome)
                  /\ AuditRun(command, r)
AuditCommand == \E x_sentinel_token \in Tokens : AuditCommandBy(x_sentinel_token)

\* POST /audit-only (audit_only): the Command Auditor alone, nothing executed
\* and nothing logged. An exception of the auditor ends the request with
\* status 500.
AuditOnlyBy(x_sentinel_token) ==
    /\ Arrives(MaxCalls)
    /\ \E command \in Commands, response \in JudgeResponses :
       \E status \in {_verify_auth(auth, x_sentinel_token)},
          early \in {CommandAuditorAudit(runtime, command)},
          sem \in {audit_command(runtime.sentinel_auditor, now, response)} :
          IF status # 200
          THEN /\ response = JudgeRaises
               /\ Refused("audit-only", command, UnknownId, <<>>, {}, status, <<>>)
          ELSE /\ (early.kind = "none" /\ sem.invoked) \/ response = JudgeRaises
               /\ runtime' = IF early.kind = "none"
                             THEN [runtime EXCEPT !.sentinel_auditor = sem.self]
                             ELSE runtime
               /\ last' = Response("audit-only", command, UnknownId, <<>>, NoRun,
                              <<OrJudge(early, sem.decision)>>, <<>>, {},
                              IF early.kind = "raise" THEN 500 ELSE 200,
                              IF early.kind = "raise" THEN <<>>
                              ELSE <<to_dict(OrJudge(early, sem.decision).decision)>>)
               /\ UNCHANGED <<_AUDIT_LOGGER, audit_log_file, approvals, audit_logs,
                              host_exec, inflight>>
AuditOnly == \E x_sentinel_token \in Tokens : AuditOnlyBy(x_sentinel_token)

\* GET /pending (list_pending_requests).
ListPendingBy(x_sentinel_token) ==
    /\ Arrives(MaxCalls)
    /\ \E status \in {_verify_auth(auth, x_sentinel_token)} :
          IF status # 200
          THEN Refused("pending", <<>>, UnknownId, <<>>, {}, status, <<>>)
          ELSE Refused("pending", <<>>, UnknownId, <<>>,
                       get_pending_approvals(approvals), 200, <<>>)
ListPending == \E x_sentinel_token \in Tokens : ListPendingBy(x_sentinel_token)

\* GET /health (health_check).
HealthCheck ==
    /\ Arrives(MaxCalls)
    /\ Refused("health", <<>>, UnknownId, <<>>, {}, 200, <<>>)

\* POST /approve/{request_id} (approve_request), lines 191-200: the token, the
\* lookup and the status check. A request that passes is held by worker w
\* until its run.
ApproveCheckBy(w, x_sentinel_token) ==
    /\ Arrives(MaxCalls)
    /\ inflight[w] = <<>>
    /\ \E request_id \in DOMAIN approvals \cup {UnknownId} :
       \E status \in {_verify_auth(auth, x_sentinel_token)},
          req \in {get_approval(approvals, request_id)} :
          IF status # 200
          THEN Refused("approve", <<>>, request_id, <<>>, {}, status, <<>>)
          ELSE IF req = <<>>
          THEN Refused("approve", <<>>, request_id, req, {}, 404, <<>>)
          ELSE IF req[1].status # "pending"
          THEN Refused("approve", req[1].command, request_id, req, {}, 400, <<>>)
          ELSE /\ inflight' = [inflight EXCEPT ![w] = req]
               /\ last' = Response("approve", req[1].command, request_id, req, NoRun,
                                   <<>>, <<>>, {}, 0, <<>>)
               /\ UNCHANGED <<runtime, _AUDIT_LOGGER, audit_log_file, approvals, audit_logs,
                              host_exec>>
ApproveCheck(w) == \E x_sentinel_token \in Tokens : ApproveCheckBy(w, x_sentinel_token)

\* approve_request, lines 203-212: the run with the policy bypassed, then the
\* resolution; an exception of the run ends the request with status 500.
ApproveRun(w) ==
    /\ inflight[w] # <<>>
    /\ UNCHANGED <<auth, build_ok, now, calls, audit_logs>>
    /\ \E req \in {inflight[w][1]}, outcome \in ExecOutcomes :
       \E r \in {run_intercepted_command(runtime, req.command, TRUE, now,
                                         JudgeRaises, outcome)} :
          /\ Consumed(r, JudgeRaises, outcome)
          /\ RunEffects(r)
          /\ approvals' = IF r.raised THEN approvals
                          ELSE resolve_request(approvals, req.id, "approved").approvals
          /\ inflight' = [inflight EXCEPT ![w] = <<>>]
          /\ last' = Response("approve", req.command, req.id, <<req>>, r, <<>>, <<>>, {},
                              IF r.raised THEN 500 ELSE 200,
                              IF r.raised THEN <<>> ELSE r.payload)

Next ==
    \/ AuditCommand
    \/ ListPending
    \/ HealthCheck
    \/ \E w \in Workers : ApproveCheck(w)
    \/ \E w \in Workers : ApproveRun(w)

Spec == Init /\ [][Next]_vars

\* The five endpoints of the server together.
Endpoints == Next \/ AuditOnly
SpecEndpoints == Init /\ [][Endpoints]_vars

\* A caller of the Runtime (as the terminal of src/api/shell.py is) calls
\* run_intercepted_command(cmd_string, bypass_policy) directly.
Run ==
    /\ Arrives(MaxRuns)
    /\ \E cmd_string \in Commands, bypass_policy \in BOOLEAN,
          response \in JudgeResponses, outcome \in ExecOutcomes :
       \E r \in {run_intercepted_command(runtime, cmd_string, bypass_policy, now,
                                         response, outcome)} :
          /\ Consumed(r, response, outcome)
          /\ RunEffects(r)
          /\ last' = Response("run", cmd_string, UnknownId, <<>>, r, <<>>, <<>>, {},
                              IF r.raised THEN 500 ELSE 200, r.payload)
          /\ UNCHANGED <<approvals, audit_logs, inflight>>

SpecRun == Init /\ [][Run]_vars

\* The Command Auditor alone, as /audit-only calls it.
SpecAudit == Init /\ [][AuditOnly]_vars

-----------------------------------------------------------------------------
(* The Semantic Auditor alone                                                *)

\* Bounds: the number of calls of audit_command, and the seconds that may
\* pass between two calls.
MaxJudgeCalls == 12
ClockSteps == {0, 10, 30}
MaxParseCalls == 3

\* What the judge may answer, beyond JudgeResponses: no JSON object at all,
\* an object with no key, with allowed only, with a risk_score only (low or
\* high), with an allowed that is not a bool, with a risk_score out of range
\* and with an empty reason.
JudgeOutputs ==
    JudgeResponses \cup
    {JudgeText(FALSE, <<>>, <<>>, <<>>),
     JudgeText(TRUE, <<>>, <<>>, <<>>),
     JudgeText(TRUE, <<TRUE>>, <<>>, <<>>),
     JudgeText(TRUE, <<>>, <<2>>, <<"low risk">>),
     JudgeText(TRUE, <<>>, <<7>>, <<"high risk">>),
     JudgeText(TRUE, <<FALSE>>, <<1>>, <<"">>),
     JudgeText(TRUE, <<TRUE>>, <<12>>, <<"out of range">>),
     JudgeTextNotBool(Str(<<"T", "r", "u", "e">>), <<3>>, <<"text">>),
     JudgeTextNotBool(Str(<<"y", "e", "s">>), <<1>>, <<"yes">>),
     JudgeTextNotBool(Str(<<"1">>), <<>>, <<>>)}

\* A deployment whose semantic auditor was constructed.
InitSemantic ==
    /\ Init
    /\ runtime.llm_auditor = "SentinelAuditor"
    /\ runtime.policy = PolicyFile
    /\ ~auth.requires_auth
    /\ build_ok

\* The trace of one direct call of SentinelAuditor.audit_command.
SemanticTrace(sem, response) ==
    [NoRun EXCEPT !.judged = TRUE, !.invoked = sem.invoked,
                  !.judge = IF sem.invoked THEN <<response>> ELSE <<>>,
                  !.decision = <<sem.decision>>,
                  !.sentinel_auditor = sem.self]

\* One call of SentinelAuditor.audit_command, dt seconds after the last one,
\* by a caller that holds the auditor (as CommandAuditor.audit does at line
\* 46); the judge answers only if it is asked.
SemanticAudit(outputs, steps, bound) ==
    /\ calls < bound
    /\ calls' = calls + 1
    /\ \E dt \in steps, response \in outputs :
       \E sem \in {audit_command(runtime.sentinel_auditor, now + dt, response)} :
          /\ sem.invoked \/ response = JudgeRaises
          /\ now' = now + dt
          /\ runtime' = [runtime EXCEPT !.sentinel_auditor = sem.self]
          /\ last' = Response("audit_command", <<>>, UnknownId, <<>>,
                              SemanticTrace(sem, response), <<>>, <<>>, {}, 200,
                              <<to_dict(sem.decision)>>)
    /\ UNCHANGED <<auth, build_ok, _AUDIT_LOGGER, audit_log_file, approvals, audit_logs,
                   host_exec, inflight>>

\* The rate limiter: many calls, few answers.
LimitedAudit == SemanticAudit({JudgeRaises, JudgeText(TRUE, <<TRUE>>, <<2>>, <<"harmless">>)},
                              ClockSteps, MaxJudgeCalls)
SpecLimiter == InitSemantic /\ [][LimitedAudit]_vars

\* The parsing of the judge's answers: few calls, many answers.
ParsedAudit == SemanticAudit(JudgeOutputs, {1, 30}, MaxParseCalls)
SpecJudge == InitSemantic /\ [][ParsedAudit]_vars

-----------------------------------------------------------------------------
(* Concurrent callers of one SentinelAuditor                                 *)

\* /audit is a plain (not async) handler, so the server runs it on the
\* threads of its pool, and every request that reaches line 46 of
\* command_auditor.py calls audit_command on the one SentinelAuditor of the
\* Runtime. audit_command takes no lock: a thread can be preempted between
\* the check of lines 83-91 and the append of line 94.
MaxConcurrentCalls == 11

\* Lines 78-91 at time t: the queue pruned, and the throttled reject if the
\* call is not admitted (<<>> if it is).
AdmissionCheck(self, t) ==
    IF t < self._last_cooldown_time + _cooldown_seconds
    THEN [self |-> [self EXCEPT !._request_history = PruneHistory(self._request_history, t)],
          decision |-> <<Reject(Reason("Sentinel Throttle: Cool-down active.", <<>>), 5)>>]
    ELSE IF Len(PruneHistory(self._request_history, t)) >= _max_requests_per_window
    THEN [self |-> [self EXCEPT !._request_history = PruneHistory(self._request_history, t),
                                !._last_cooldown_time = t],
          decision |-> <<Reject(Reason("Sentinel Throttle: Limit exceeded (10 req/60s). Cooling down...", <<>>), 5)>>]
    ELSE [self |-> [self EXCEPT !._request_history = PruneHistory(self._request_history, t)],
          decision |-> <<>>]

\* Line 94: self._request_history.append(now), with the now read at line 78.
RecordRequest(self, t) == [self EXCEPT !._request_history = Append(self._request_history, t)]

\* Thread w enters audit_command, dt seconds after the last call began: lines
\* 78-91. A call that is not admitted returns at once; an admitted one holds
\* the time it read until it goes on.
CallerChecks(w) ==
    /\ calls < MaxConcurrentCalls
    /\ inflight[w] = <<>>
    /\ calls' = calls + 1
    /\ \E dt \in {0, 30} :
       \E c \in {AdmissionCheck(runtime.sentinel_auditor, now + dt)} :
          /\ now' = now + dt
          /\ runtime' = [runtime EXCEPT !.sentinel_auditor = c.self]
          /\ IF c.decision = <<>>
             THEN /\ inflight' = [inflight EXCEPT ![w] = <<[now |-> now + dt]>>]
                  /\ UNCHANGED last
             ELSE /\ last' = Response("audit_command", <<>>, UnknownId, <<>>,
                                      [NoRun EXCEPT !.judged = TRUE,
                                                    !.decision = c.decision,
                                                    !.sentinel_auditor = c.self],
                                      <<>>, <<>>, {}, 200, <<to_dict(c.decision[1])>>)
                  /\ UNCHANGED inflight
    /\ UNCHANGED <<auth, build_ok, _AUDIT_LOGGER, audit_log_file, approvals, audit_logs,
                   host_exec>>

\* Thread w goes on: line 94 and the call of the judge, lines 108-117.
CallerRecords(w) ==
    /\ inflight[w] # <<>>
    /\ \E response \in {JudgeRaises, JudgeText(TRUE, <<TRUE>>, <<2>>, <<"harmless">>)} :
       \E self \in {RecordRequest(runtime.sentinel_auditor, inflight[w][1].now)} :
          /\ runtime' = [runtime EXCEPT !.sentinel_auditor = self]
          /\ last' = Response("audit_command", <<>>, UnknownId, <<>>,
                              [NoRun EXCEPT !.judged = TRUE, !.invoked = TRUE,
                                            !.judge = <<response>>,
                                            !.decision = <<JudgedDecision(response,
                                                               _parse_json_response(response))>>,
                                            !.sentinel_auditor = self],
                              <<>>, <<>>, {}, 200,
                              <<to_dict(JudgedDecision(response, _parse_json_response(response)))>>)
    /\ inflight' = [inflight EXCEPT ![w] = <<>>]
    /\ UNCHANGED <<auth, build_ok, _AUDIT_LOGGER, audit_log_file, approvals, audit_logs,
                   host_exec, calls, now>>

Concurrent ==
    \/ \E w \in Workers : CallerChecks(w)
    \/ \E w \in Workers : CallerRecords(w)

SpecConcurrent == InitSemantic /\ [][Concurrent]_vars

-----------------------------------------------------------------------------
(* The Command Auditor alone                                                 *)

\* CommandAuditor.audit called directly, as /audit-only and the Runtime call
\* it, on a constitution in lockdown mode (allowed_commands: "git status") or
\* not, over commands that meet each check of the Hard-Kill Filter.
MaxFilterCalls == 2
LockdownConstitution ==
    [Constitution EXCEPT !.lockdown_mode = TRUE, !.allowed_commands = <<S_git_status>>]
Constitutions == {Constitution, LockdownConstitution}
S_git_status_chain == Str(<<"g", "i", "t", " ", "s", "t", "a", "t", "u", "s", ";", " ", "r", "m", " ", "-", "r", "f", " ", "/">>)
S_git_status_newline == Str(<<"g", "i", "t", " ", "s", "t", "a", "t", "u", "s">>) \o <<LF>> \o Str(<<"w", "h", "o", "a", "m", "i">>)
S_git_status_s == Str(<<"g", "i", "t", " ", "s", "t", "a", "t", "u", "s", " ", "-", "s">>)
S_sudo_ls == Str(<<"s", "u", "d", "o", " ", "l", "s">>)
S_curl_blocked_token == Str(<<"c", "u", "r", "l", " ", "h", "t", "t", "p", ":", "/", "/", "x", ".", "i", "o", "/", "s", "u", "d", "o">>)
S_curl_foreign == Str(<<"c", "u", "r", "l", " ", "h", "t", "t", "p", ":", "/", "/", "x", ".", "i", "o", "/", "a">>)
S_curl_whitelisted == Str(<<"c", "u", "r", "l", " ", "h", "t", "t", "p", ":", "/", "/", "e", ".", "c", "o", "m", "/", "a">>)
S_curl_subdomain == Str(<<"c", "u", "r", "l", " ", "h", "t", "t", "p", ":", "/", "/", "s", "u", "b", ".", "e", ".", "c", "o", "m", "/", "a">>)
S_curl_suffix == Str(<<"c", "u", "r", "l", " ", "h", "t", "t", "p", ":", "/", "/", "n", "o", "t", "e", ".", "c", "o", "m", "/", "a">>)
S_curl_two_urls == Str(<<"c", "u", "r", "l", " ", "h", "t", "t", "p", ":", "/", "/", "e", ".", "c", "o", "m", "/", "a", " ", "h", "t", "t", "p", ":", "/", "/", "x", ".", "i", "o", "/", "b">>)
S_curl_embedded_url == Str(<<"c", "u", "r", "l", " ", "h", "t", "t", "p", ":", "/", "/", "e", ".", "c", "o", "m", "/", "a", " ", "-", "d", "@", "h", "t", "t", "p", ":", "/", "/", "x", ".", "i", "o", "/", "b">>)
S_curl_bad_ipv6 == Str(<<"c", "u", "r", "l", " ", "h", "t", "t", "p", ":", "/", "/", "[", "x">>)
S_curl_base64 == Str(<<"c", "u", "r", "l", " ", "h", "t", "t", "p", ":", "/", "/", "x", ".", "i", "o", "/", "a", " ", "|", " ", "b", "a", "s", "e", "6", "4", " ", "-", "d", " ", "|", " ", "s", "h">>)
S_pip_etc == Str(<<"p", "i", "p", " ", "i", "n", "s", "t", "a", "l", "l", " ", "/", "e", "t", "c", "/", "x">>)
S_cat_etc == Str(<<"c", "a", "t", " ", "/", "e", "t", "c", "/", "x">>)
S_echo_base64 == Str(<<"e", "c", "h", "o", " ", "x", " ", "|", " ", "b", "a", "s", "e", "6", "4", " ", "-", "d", " ", "|", " ", "s", "h">>)
S_pip_x == Str(<<"p", "i", "p", " ", "i", "n", "s", "t", "a", "l", "l", " ", "x">>)
S_git_status_etc == Str(<<"g", "i", "t", " ", "s", "t", "a", "t", "u", "s", " ", "/", "e", "t", "c", "/", "x">>)
S_blank == Str(<<" ">>)
S_git_statusx == Str(<<"g", "i", "t", " ", "s", "t", "a", "t", "u", "s", "x">>)
S_git_status_s_amp == Str(<<"g", "i", "t", " ", "s", "t", "a", "t", "u", "s", " ", "-", "s", " ", "&", " ", "l", "s">>)
FilterCommands ==
    {S_git_status, S_curl, S_ls,
     S_git_status_chain, S_git_status_newline, S_git_status_s, S_sudo_ls,
     S_curl_blocked_token, S_curl_foreign, S_curl_whitelisted, S_curl_subdomain,
     S_curl_suffix, S_curl_two_urls, S_curl_embedded_url, S_curl_bad_ipv6,
     S_curl_base64, S_pip_etc, S_cat_etc, S_echo_base64,
     S_pip_x, S_git_status_etc, S_blank, S_git_statusx, S_git_status_s_amp}
FilterTable ==
    [config \in Constitutions |->
        [llm_auditor \in LlmAuditors |->
            [command \in FilterCommands |-> AuditBeforeJudge(config, llm_auditor, command)]]]

InitFilter ==
    /\ runtime \in [policy : {PolicyFile}, constitution : Constitutions,
                    llm_auditor : LlmAuditors,
                    sentinel_auditor : {NewSentinelAuditor}]
    /\ auth = [requires_auth |-> FALSE, token |-> <<>>]
    /\ build_ok = TRUE
    /\ _AUDIT_LOGGER = None
    /\ audit_log_file = <<>>
    /\ approvals = [i \in {} |-> None]
    /\ audit_logs = <<>>
    /\ host_exec = <<>>
    /\ inflight = [w \in Workers |-> <<>>]
    /\ last = Response("startup", <<>>, UnknownId, <<>>, NoRun, <<>>, <<>>, {}, 200, <<>>)
    /\ calls = 0
    /\ now = StartTime

\* One call of CommandAuditor.audit(command): status 500 stands for an
\* exception that leaves audit, 200 for a returned AuditDecision.
FilterAudit ==
    /\ calls < MaxFilterCalls
    /\ calls' = calls + 1
    /\ now' = now + 1
    /\ \E command \in FilterCommands, response \in JudgeResponses :
       \E early \in {FilterTable[runtime.constitution][runtime.llm_auditor][command]},
          sem \in {audit_command(runtime.sentinel_auditor, now, response)} :
          /\ (early.kind = "none" /\ sem.invoked) \/ response = JudgeRaises
          /\ runtime' = IF early.kind = "none"
                        THEN [runtime EXCEPT !.sentinel_auditor = sem.self]
                        ELSE runtime
          /\ last' = Response("CommandAuditor.audit", command, UnknownId, <<>>, NoRun,
                         <<OrJudge(early, sem.decision)>>, <<>>, {},
                         IF early.kind = "raise" THEN 500 ELSE 200,
                         IF early.kind = "raise" THEN <<>>
                         ELSE <<to_dict(OrJudge(early, sem.decision).decision)>>)
    /\ UNCHANGED <<auth, build_ok, _AUDIT_LOGGER, audit_log_file, approvals, audit_logs,
                   host_exec, inflight>>
SpecFilter == InitFilter /\ [][FilterAudit]_vars

-----------------------------------------------------------------------------
(* The Normalizer alone                                                      *)

\* The commands given to _normalize_command: every concatenation of at most
\* MaxPieces pieces, the pieces being the characters and escape bodies the
\* Normalizer treats specially.
MaxPieces == 3
Pieces ==
    {<<BACKSLASH>>, <<SQUOTE>>, <<36>>, <<SPACE>>, <<ZWSP>>, Str(<<"a">>),
     Str(<<"x", "2", "4">>), Str(<<"x", "5", "c">>), Str(<<"u", "2", "0", "0", "b">>)}
RECURSIVE Concat(_)
Concat(pieces) == IF pieces = <<>> THEN <<>> ELSE Head(pieces) \o Concat(Tail(pieces))
NormalizerInputs ==
    {Concat(pieces) : pieces \in UNION {[1..n -> Pieces] : n \in 0..MaxPieces}}

\* CommandAuditor._normalize_command(command) for a command of
\* NormalizerInputs; status 500 stands for an exception.
Normalized(endpoint, command, normalized) ==
    /\ calls' = calls + 1
    /\ last' = Response(endpoint, command, UnknownId, <<>>, NoRun, <<>>, <<>>, {},
                        IF normalized.ok THEN 200 ELSE 500,
                        IF normalized.ok THEN <<normalized.val>> ELSE <<>>)
    /\ UNCHANGED <<runtime, auth, build_ok, _AUDIT_LOGGER, audit_log_file, approvals,
                   audit_logs, host_exec, inflight, now>>
NormalizeCommand ==
    /\ calls = 0
    /\ \E command \in NormalizerInputs :
          Normalized("_normalize_command", command, _normalize_command(command))

\* _normalize_command applied to the string it returned last.
NormalizeAgain ==
    /\ calls = 1
    /\ last.status_code = 200
    /\ Normalized("_normalize_command again", last.body[1], _normalize_command(last.body[1]))
SpecNormalizer == InitFilter /\ [][NormalizeCommand \/ NormalizeAgain]_vars

-----------------------------------------------------------------------------
(* The gateway on a store that can fail                                      *)

\* What the store does during one request: nothing wrong, or
\* sqlite3.OperationalError (database locked, disk full, ...) raised by the
\* INSERT of insert_approval or by the INSERT of log_audit.
StoreFaults == {"none", "insert_approval", "log_audit"}

\* A response together with the fault of the store during the request.
Faulted(response, fault) ==
    [f \in DOMAIN response \cup {"fault"} |-> IF f = "fault" THEN fault ELSE response[f]]

\* A hook that swallows the failure of create_request and goes on.
HitlHookIgnoringFailure(table, command, result, req_id, fault) ==
    IF result.status # <<"review_required">> \/ fault = "insert_approval"
    THEN [raised |-> FALSE, approvals |-> table, result |-> result, created |-> <<>>]
    ELSE [raised |-> FALSE,
          approvals |-> create_request(table, req_id, command, "Policy Review",
                                       result.reason).approvals,
          result |-> WithRequestId(result, req_id), created |-> <<req_id>>]

\* The HITL hook of audit_command (lines 143-150): the table afterwards, the
\* result with the request id, and whether create_request raised.
HitlHook(table, command, result, req_id, fault) ==
    IF result.status # <<"review_required">>
    THEN [raised |-> FALSE, approvals |-> table, result |-> result, created |-> <<>>]
    ELSE IF fault = "insert_approval"
    THEN [raised |-> TRUE, approvals |-> table, result |-> result, created |-> <<>>]
    ELSE [raised |-> FALSE,
          approvals |-> create_request(table, req_id, command, "Policy Review",
                                       result.reason).approvals,
          result |-> WithRequestId(result, req_id), created |-> <<req_id>>]

\* POST /audit, lines 138-162, for the run with trace r on a store with the
\* given fault: an exception of the run, of create_request or of log_audit is
\* re-raised at line 162 and ends the request with status 500.
AuditRunOnStore(command, r, fault) ==
    /\ RunEffects(r)
    /\ UNCHANGED inflight
    /\ IF r.raised
       THEN /\ fault = "none"
            /\ last' = Faulted(Response("audit", command, UnknownId, <<>>, r, <<>>, <<>>, {},
                                        500, <<>>), fault)
            /\ UNCHANGED <<approvals, audit_logs>>
       ELSE \E hook \in {HitlHook(approvals, command, r.payload[1], uuid4(approvals), fault)} :
            /\ fault = "insert_approval" => r.payload[1].status = <<"review_required">>
            /\ approvals' = hook.approvals
            /\ audit_logs' = IF hook.raised \/ fault = "log_audit" THEN audit_logs
                             ELSE log_audit(audit_logs, command, hook.result)
            /\ last' = Faulted(Response("audit", command, UnknownId, <<>>, r, <<>>,
                                        hook.created, {},
                                        IF hook.raised \/ fault = "log_audit" THEN 500 ELSE 200,
                                        IF hook.raised \/ fault = "log_audit" THEN <<>>
                                        ELSE <<hook.result>>), fault)

\* POST /audit (audit_command) on a store that can fail.
AuditCommandOnStore ==
    /\ Arrives(MaxCalls)
    /\ \E command \in HttpCommands, x_sentinel_token \in Tokens, fault \in StoreFaults :
       \E status \in {_verify_auth(auth, x_sentinel_token)} :
          IF status # 200
          THEN /\ fault = "none"
               /\ Refused("audit", command, UnknownId, <<>>, {}, status, <<>>)
          ELSE IF Strip(command) = <<>>
          THEN /\ fault = "none"
               /\ Refused("audit", command, UnknownId, <<>>, {}, 200, <<EmptyCommandBody>>)
          ELSE \E response \in JudgeResponses, outcome \in ExecOutcomes :
               \E r \in {run_intercepted_command(runtime, command, FALSE, now,
                                                 response, outcome)} :
                  /\ Consumed(r, response, outcome)
                  /\ AuditRunOnStore(command, r, fault)
SpecStore == Init /\ [][AuditCommandOnStore]_vars

-----------------------------------------------------------------------------
(* The Runtime with every answer of the judge                                *)

\* One call of run_intercepted_command, as Run, with the judge giving any of
\* the answers of JudgeOutputs or a negative risk_score.
MaxJudgedRuns == 1
JudgedRunOutputs ==
    JudgeOutputs \cup {JudgeText(TRUE, <<TRUE>>, <<-3>>, <<"negative">>)}
JudgedRun ==
    /\ Arrives(MaxJudgedRuns)
    /\ \E cmd_string \in Commands, bypass_policy \in BOOLEAN,
          response \in JudgedRunOutputs, outcome \in ExecOutcomes :
       \E r \in {run_intercepted_command(runtime, cmd_string, bypass_policy, now,
                                         response, outcome)} :
          /\ Consumed(r, response, outcome)
          /\ RunEffects(r)
          /\ last' = Response("run", cmd_string, UnknownId, <<>>, r, <<>>, <<>>, {},
                              IF r.raised THEN 500 ELSE 200, r.payload)
          /\ UNCHANGED <<approvals, audit_logs, inflight>>
SpecJudgedRun == Init /\ [][JudgedRun]_vars

-----------------------------------------------------------------------------
(* The Policy Rule Engine alone                                              *)

\* The policies: at most MaxRules rules drawn from a pool (a literal pattern
\* per action, a pattern that is a prefix of another, an empty pattern and a
\* pattern that does not compile) with a default action of block or audit,
\* and the safe default of a missing file.
MaxRules == 2
RulePool ==
    {[pattern |-> <<40>>, action |-> "allow",
      name |-> Str(<<"b", "a", "d">>), description |-> "unbalanced"],
     [pattern |-> <<>>, action |-> "allow",
      name |-> Str(<<"a", "n", "y">>), description |-> "empty pattern"],
     [pattern |-> Str(<<"g", "i", "t">>), action |-> "block",
      name |-> Str(<<"g", "i", "t">>), description |-> "no git"],
     [pattern |-> S_git_status, action |-> "allow",
      name |-> Str(<<"s", "t", "a", "t", "u", "s">>), description |-> "read only"],
     [pattern |-> S_git_push, action |-> "review",
      name |-> Str(<<"p", "u", "s", "h">>), description |-> "needs approval"]}
PolicySet ==
    {NoPolicyFile} \cup
    {[default_action |-> action, rules |-> rules] :
        action \in {"block", "audit"},
        rules \in UNION {[1..n -> RulePool] : n \in 0..MaxRules}}
PolicyCommands ==
    {S_git_status, <<SPACE>> \o S_git_status_s, S_git_push, S_whoami, <<40>> \o S_ls}

InitPolicy ==
    /\ runtime \in [policy : PolicySet, constitution : {Constitution},
                    llm_auditor : {None}, sentinel_auditor : {NewSentinelAuditor}]
    /\ auth = [requires_auth |-> FALSE, token |-> <<>>]
    /\ build_ok = TRUE
    /\ _AUDIT_LOGGER = None
    /\ audit_log_file = <<>>
    /\ approvals = [i \in {} |-> None]
    /\ audit_logs = <<>>
    /\ host_exec = <<>>
    /\ inflight = [w \in Workers |-> <<>>]
    /\ last = Response("startup", <<>>, UnknownId, <<>>, NoRun, <<>>, <<>>, {}, 200, <<>>)
    /\ calls = 0
    /\ now = StartTime

\* One call of PolicyEnforcer.evaluate(command); the result is kept in the
\* policy field of the trace.
Evaluate ==
    /\ calls = 0
    /\ calls' = 1
    /\ \E command \in PolicyCommands :
          last' = Response("evaluate", command, UnknownId, <<>>,
                           [NoRun EXCEPT !.policy = <<evaluate(runtime.policy, command)>>],
                           <<>>, <<>>, {}, 200, <<>>)
    /\ UNCHANGED <<runtime, auth, build_ok, _AUDIT_LOGGER, audit_log_file, approvals,
                   audit_logs, host_exec, inflight, now>>
SpecPolicy == InitPolicy /\ [][Evaluate]_vars

-----------------------------------------------------------------------------
(* SentinelAuditor._invoke_agent (sentinel_auditor.py, lines 119-246)        *)

\* What one invocation of the judge does: Method 1 (client.models
\* .generate_content, line 195) returns a text, returns no text, or raises an
\* exception whose message holds "429", holds "RESOURCE_EXHAUSTED" without
\* "429", or holds neither; Method 2 (self._runner.run, line 216) yields
\* parts, yields none, or raises likewise.
max_retries == 3
Method1Outcomes == {"text", "empty", "429", "RESOURCE_EXHAUSTED", "error"}
Method2Outcomes == {"text", "none", "429", "RESOURCE_EXHAUSTED", "error"}

\* The deployment of the judge: whether google.genai can be imported, whether
\* Vertex AI is configured (use_vertex and project and location), whether the
\* InMemoryRunner exists, and what Method 2 does when it is tried.
JudgeEnvs ==
    [genai : BOOLEAN, vertex : BOOLEAN, runner : BOOLEAN, method2 : Method2Outcomes]

\* The trace of a call of _invoke_agent: the invocations made (attempt,
\* method, outcome), the calls of time.sleep (attempt, seconds), the number
\* of iterations of the loop entered, and how the call ended (kind "text" or
\* "raise", with the exception raised).
NoInvocation ==
    [calls |-> <<>>, sleeps |-> <<>>, attempts |-> 0, kind |-> "running", error |-> ""]
Invocation(tr, attempt, method, outcome) ==
    [tr EXCEPT !.calls = Append(@, [attempt |-> attempt, method |-> method,
                                    outcome |-> outcome])]

\* Lines 244-246: the last exception is raised, or RuntimeError when there
\* was none.
RaiseLast(tr, last_exception) ==
    [tr EXCEPT !.kind = "raise",
               !.error = IF last_exception # <<>> THEN last_exception[1]
                         ELSE "RuntimeError"]
ReturnText(tr) == [tr EXCEPT !.kind = "text"]

RECURSIVE InvokeFrom(_, _, _, _, _)
\* Lines 237-242: the handler of the loop for exception e raised in attempt.
OuterExcept(env, m1, attempt, e, tr) ==
    IF attempt < max_retries /\ e = "429"
    THEN InvokeFrom(env, m1, attempt + 1, <<e>>,
                    [tr EXCEPT !.sleeps = Append(@, [attempt |-> attempt,
                                                     seconds |-> (2 ^ attempt) + 1])])
    ELSE RaiseLast(tr, <<e>>)

\* Lines 204-235: Method 2, tried when Vertex AI is not configured and the
\* runner exists; only an exception with "429" leaves it.
Method2(env, m1, attempt, last_exception, tr) ==
    IF env.vertex \/ ~env.runner
    THEN InvokeFrom(env, m1, attempt + 1, last_exception, tr)
    ELSE IF env.method2 = "text" THEN ReturnText(Invocation(tr, attempt, 2, "text"))
    ELSE IF env.method2 = "none"
    THEN InvokeFrom(env, m1, attempt + 1, last_exception,
                    Invocation(tr, attempt, 2, "none"))
    ELSE IF env.method2 = "429"
    THEN OuterExcept(env, m1, attempt, "429", Invocation(tr, attempt, 2, "429"))
    ELSE InvokeFrom(env, m1, attempt + 1, <<env.method2>>,
                    Invocation(tr, attempt, 2, env.method2))

\* Lines 123-242 from one attempt on: Method 1 (lines 126-202), whose
\* exception is re-raised only when its message holds "429" or
\* "RESOURCE_EXHAUSTED"; without google.genai the import of line 131 raises
\* and line 205 then reads use_vertex, which was never assigned.
InvokeFrom(env, m1, attempt, last_exception, tr) ==
    IF attempt > max_retries THEN RaiseLast(tr, last_exception)
    ELSE IF ~env.genai
    THEN OuterExcept(env, m1, attempt, "UnboundLocalError",
                     [tr EXCEPT !.attempts = attempt + 1])
    ELSE IF m1[attempt + 1] = "text"
    THEN ReturnText(Invocation([tr EXCEPT !.attempts = attempt + 1], attempt, 1, "text"))
    ELSE IF m1[attempt + 1] \in {"429", "RESOURCE_EXHAUSTED"}
    THEN OuterExcept(env, m1, attempt, m1[attempt + 1],
                     Invocation([tr EXCEPT !.attempts = attempt + 1], attempt, 1,
                                m1[attempt + 1]))
    ELSE Method2(env, m1, attempt,
                 IF m1[attempt + 1] = "error" THEN <<"error">> ELSE last_exception,
                 Invocation([tr EXCEPT !.attempts = attempt + 1], attempt, 1,
                            m1[attempt + 1]))

\* SentinelAuditor._invoke_agent, given the deployment and what Method 1 does
\* at each attempt.
_invoke_agent(env, m1) == InvokeFrom(env, m1, 0, <<>>, NoInvocation)

\* A response together with the trace of _invoke_agent.
WithInvocation(response, tr) ==
    [f \in DOMAIN response \cup {"invoke"} |-> IF f = "invoke" THEN tr ELSE response[f]]

\* One call of _invoke_agent.
InvokeAgent ==
    /\ calls = 0
    /\ calls' = 1
    /\ \E env \in JudgeEnvs, m1 \in [1..(max_retries + 1) -> Method1Outcomes] :
          /\ ~env.genai => \A k \in DOMAIN m1 : m1[k] = "error"
          /\ last' = WithInvocation(
                         Response("_invoke_agent", <<>>, UnknownId, <<>>, NoRun, <<>>, <<>>,
                                  {}, 200, <<>>),
                         _invoke_agent(env, m1))
    /\ UNCHANGED <<runtime, auth, build_ok, _AUDIT_LOGGER, audit_log_file, approvals,
                   audit_logs, host_exec, inflight, now>>
SpecInvoke == InitSemantic /\ [][InvokeAgent]_vars

-----------------------------------------------------------------------------
(* The Runtime on commands that normalization changes                        *)

\* One call of run_intercepted_command, as Run, on a command whose normalized
\* form differs from the command itself.
MaxRawRuns == 1
RawRun ==
    /\ Arrives(MaxRawRuns)
    /\ \E cmd_string \in RawCommands, bypass_policy \in BOOLEAN,
          response \in JudgeResponses, outcome \in ExecOutcomes :
       \E r \in {run_intercepted_command(runtime, cmd_string, bypass_policy, now,
                                         response, outcome)} :
          /\ Consumed(r, response, outcome)
          /\ RunEffects(r)
          /\ last' = Response("run", cmd_string, UnknownId, <<>>, r, <<>>, <<>>, {},
                              IF r.raised THEN 500 ELSE 200, r.payload)
          /\ UNCHANGED <<approvals, audit_logs, inflight>>
SpecRawRun == Init /\ [][RawRun]_vars

-----------------------------------------------------------------------------
(* The rate limiter over unbounded time                                      *)

\* audit_command reads the clock (line 78) only to compare it with the
\* timestamps it keeps (lines 80, 84): a clock that has advanced by dt is a
\* window and a cooldown start that are dt older. A timestamp that has left
\* the window and a cooldown that is over are kept as such: t - 61 is pruned
\* by the next call as any older timestamp is, and cooldown start 0 is the
\* value of line 48.
ElapseSteps == {20}
Older(self, t, dt) ==
    [_request_history |->
         [i \in DOMAIN self._request_history |->
             IF self._request_history[i] - dt < t - _window_seconds
             THEN t - _window_seconds - 1
             ELSE self._request_history[i] - dt],
     _last_cooldown_time |->
         IF self._last_cooldown_time - dt <= t - _cooldown_seconds
         THEN 0
         ELSE self._last_cooldown_time - dt]

\* Time passes between two calls.
Elapse ==
    /\ \E dt \in ElapseSteps :
          runtime' = [runtime EXCEPT !.sentinel_auditor =
                                         Older(runtime.sentinel_auditor, now, dt)]
    /\ UNCHANGED <<auth, build_ok, _AUDIT_LOGGER, audit_log_file, approvals, audit_logs,
                   host_exec, inflight, last, calls, now>>

\* One call of SentinelAuditor.audit_command, as SemanticAudit, with no bound
\* on the number of calls.
RecoveryAudit ==
    /\ \E response \in {JudgeRaises, JudgeText(TRUE, <<TRUE>>, <<2>>, <<"harmless">>)} :
       \E sem \in {audit_command(runtime.sentinel_auditor, now, response)} :
          /\ sem.invoked \/ response = JudgeRaises
          /\ runtime' = [runtime EXCEPT !.sentinel_auditor = sem.self]
          /\ last' = Response("audit_command", <<>>, UnknownId, <<>>,
                              SemanticTrace(sem, response), <<>>, <<>>, {}, 200,
                              <<to_dict(sem.decision)>>)
    /\ UNCHANGED <<auth, build_ok, _AUDIT_LOGGER, audit_log_file, approvals, audit_logs,
                   host_exec, inflight, calls, now>>

\* Time goes on and the callers go on calling.
SpecRecovery ==
    /\ InitSemantic
    /\ [][Elapse \/ RecoveryAudit]_vars
    /\ WF_vars(Elapse)
    /\ WF_vars(RecoveryAudit)

-----------------------------------------------------------------------------
(* The gateway when the try block of approve_request raises                  *)

\* An except clause that resolves the request before it answers.
OnRunFailureResolving(table, req_id) == resolve_request(table, req_id, "approved").approvals

\* approve_request, lines 210-212: the except clause answers 500 and makes no
\* call of the Approval Store, so the table is what it was.
OnRunFailure(table, req_id) == table

\* approve_request, lines 203-212, when line 205 raises (the runtime was not
\* initialized) or an exception leaves run_intercepted_command at line 207
\* before anything is executed: line 208 is not reached and the except clause
\* turns the exception into status 500.
ApproveRaises(w) ==
    /\ inflight[w] # <<>>
    /\ \E req \in {inflight[w][1]} :
          /\ approvals' = OnRunFailure(approvals, req.id)
          /\ inflight' = [inflight EXCEPT ![w] = <<>>]
          /\ last' = Response("approve", req.command, req.id, <<req>>,
                              [NoRun EXCEPT !.called = TRUE, !.cmd_string = req.command,
                                            !.bypass_policy = TRUE, !.raised = TRUE],
                              <<>>, <<>>, {}, 500, <<>>)
    /\ UNCHANGED <<runtime, auth, build_ok, _AUDIT_LOGGER, audit_log_file, audit_logs,
                   host_exec, calls, now>>

ApproveOrRaise == Next \/ \E w \in Workers : ApproveRaises(w)
SpecApprove == Init /\ [][ApproveOrRaise]_vars

-----------------------------------------------------------------------------
(* Properties                                                                *)

\* A step that is one direct call of run_intercepted_command, one POST /audit
\* that passed authentication with a command that is not empty, and the
\* second half of one POST /approve by worker w.
RunStep == calls' = calls + 1 /\ last'.endpoint = "run"
AuditStep == calls' = calls + 1 /\ last'.endpoint = "audit" /\ last'.run.called
ApproveRunStep(w) == inflight[w] # <<>> /\ inflight'[w] = <<>>

\* C1: for every call of run_intercepted_command, subprocess.run is invoked
\* only when the decision reached before execution is allowed; when that
\* decision is not allowed the call returns without executing anything, with
\* returncode null and stdout and stderr empty.
C1_ExecutesOnlyWhenAllowed ==
    [][RunStep =>
         /\ host_exec' # host_exec =>
               last'.run.decision # <<>> /\ last'.run.decision[1].allowed
         /\ last'.run.decision # <<>> /\ ~last'.run.decision[1].allowed =>
               /\ host_exec' = host_exec
               /\ last'.run.payload # <<>>
               /\ last'.run.payload[1].returncode = <<>>
               /\ last'.run.payload[1].stdout = ""
               /\ last'.run.payload[1].stderr = ""
      ]_vars

\* C1's case: the Command Auditor rejected the command and the call returned
\* the rejection with nothing executed.
C1_Witness ==
    /\ last.endpoint = "run"
    /\ last.run.audit # <<>>
    /\ last.run.decision # <<>>
    /\ ~last.run.decision[1].allowed
    /\ last.run.payload[1].returncode = <<>>
    /\ host_exec = <<>>

\* C2: for every command string, CommandAuditor.audit returns an AuditDecision
\* with a definite allowed value: it never raises.
C2_AuditNeverRaises ==
    last.endpoint = "audit-only" /\ last.audit # <<>> =>
        /\ last.audit[1].kind = "decision"
        /\ last.audit[1].decision.allowed \in BOOLEAN
        /\ last.status_code = 200

\* C3 as stated: with bypass_policy = true the Policy Rule Engine is skipped
\* but the Command Auditor is still run, and the command is executed only if
\* the Command Auditor's decision is allowed.
C3_BypassStillAudits ==
    last.endpoint = "run" /\ last.run.bypass_policy =>
        /\ last.run.policy = <<>>
        /\ last.run.audit # <<>>
        /\ last.run.exec # <<>> =>
              last.run.audit[1].kind = "decision" /\ last.run.audit[1].decision.allowed

\* C3, amended: with bypass_policy = true the Policy Rule Engine is skipped
\* and the Command Auditor is not run either: the decision is the allow the
\* Runtime synthesizes (risk 0, "User Approved via HITL"), and the call goes
\* on to execution on it.
C3_BypassSkipsAuditor ==
    last.endpoint = "run" /\ last.run.bypass_policy =>
        /\ last.run.policy = <<>>
        /\ last.run.audit = <<>>
        /\ ~last.run.judged /\ ~last.run.invoked
        /\ last.run.decision = <<BypassDecision>>
        /\ last.run.exec # <<>> \/ ~shlex_split(last.run.cmd_string).ok

\* C3's case: a bypassing call executed a command that the Command Auditor
\* rejects.
C3_Witness ==
    /\ last.endpoint = "run"
    /\ last.run.bypass_policy
    /\ last.run.exec # <<>>
    /\ CommandAuditorAudit(runtime, last.run.cmd_string).kind = "decision"
    /\ ~CommandAuditorAudit(runtime, last.run.cmd_string).decision.allowed

\* C4: without a semantic auditor (llm_auditor is None), CommandAuditor.audit
\* returns allowed = false for every command that the Hard-Kill Filter does
\* not resolve and that the lockdown allowlist does not explicitly allow.
C4_FailClosedWithoutJudge ==
    /\ last.endpoint = "audit-only"
    /\ last.audit # <<>>
    /\ runtime.llm_auditor = None
    /\ last.audit[1].hard_kill = "none"
    /\ last.audit[1].allowlisted = "False"
    => /\ last.audit[1].kind = "decision"
       /\ ~last.audit[1].decision.allowed
       /\ last.status_code = 200
       /\ ~last.body[1].allowed

\* C4's case: a command no deterministic layer resolves, audited without a
\* semantic auditor.
C4_Witness ==
    /\ last.endpoint = "audit-only"
    /\ last.audit # <<>>
    /\ runtime.llm_auditor = None
    /\ last.audit[1].hard_kill = "none"
    /\ last.audit[1].allowlisted = "False"
    /\ last.body # <<>>
    /\ ~last.body[1].allowed

\* C5: when not bypassing and the first matching policy rule has action
\* allow, the Runtime synthesizes an allow decision (risk 0) and goes to
\* execution without invoking CommandAuditor.audit: neither the Hard-Kill
\* Filter nor the semantic judge runs.
C5_PolicyAllowSkipsAuditor ==
    /\ last.endpoint = "run"
    /\ ~last.run.bypass_policy
    /\ last.run.policy # <<>>
    /\ last.run.policy[1].action = "allow"
    => /\ last.run.decision # <<>>
       /\ last.run.decision[1].allowed
       /\ last.run.decision[1].risk_score = 0
       /\ last.run.audit = <<>>
       /\ ~last.run.judged /\ ~last.run.invoked
       /\ last.run.exec # <<>> \/ ~shlex_split(last.run.cmd_string).ok

\* C5's case: a command allowed by a policy rule was executed.
C5_Witness ==
    /\ last.endpoint = "run"
    /\ ~last.run.bypass_policy
    /\ last.run.policy # <<>>
    /\ last.run.policy[1].action = "allow"
    /\ last.run.exec # <<>>
    /\ host_exec # <<>>

\* What a policy block returns: a reject at risk 10 with null/empty execution
\* fields, the Command Auditor not invoked and nothing executed.
BlockReturnsReject ==
    /\ last'.run.payload # <<>>
    /\ ~last'.run.payload[1].allowed
    /\ last'.run.payload[1].risk_score = 10
    /\ last'.run.payload[1].returncode = <<>>
    /\ last'.run.payload[1].stdout = ""
    /\ last'.run.payload[1].stderr = ""
    /\ last'.run.audit = <<>>
    /\ ~last'.run.judged
    /\ host_exec' = host_exec
BlockStep ==
    /\ RunStep
    /\ ~last'.run.bypass_policy
    /\ last'.run.policy # <<>>
    /\ last'.run.policy[1].action = "block"

C8_ApproveExecutes ==
    [][\A w \in Workers : ApproveRunStep(w) =>
         /\ last'.run.called
         /\ last'.run.bypass_policy
         /\ last'.run.cmd_string = inflight[w][1].command
         /\ Len(last'.run.exec) = 1
         /\ host_exec' = host_exec \o last'.run.exec
         /\ approvals'[inflight[w][1].id].status = "approved"
      ]_vars

\* C8, amended: approving a PendingRequest whose status is pending runs its
\* stored command with the policy bypassed, which executes it unless it
\* cannot be tokenized (then nothing is executed), and leaves the request in
\* status approved.
C8_ApproveExecutesIfParsed ==
    [][\A w \in Workers : ApproveRunStep(w) =>
         /\ last'.run.called
         /\ last'.run.bypass_policy
         /\ last'.run.cmd_string = inflight[w][1].command
         /\ Len(last'.run.exec) =
                IF use_shell(inflight[w][1].command) \/ shlex_split(inflight[w][1].command).ok
                THEN 1 ELSE 0
         /\ host_exec' = host_exec \o last'.run.exec
         /\ approvals'[inflight[w][1].id].status = "approved"
      ]_vars

\* C8's case: a pending request was approved and its command executed.
C8_Witness ==
    /\ last.endpoint = "approve"
    /\ last.status_code = 200
    /\ last.req # <<>>
    /\ last.req[1].status = "pending"
    /\ last.run.bypass_policy
    /\ last.run.exec # <<>>
    /\ host_exec # <<>>
    /\ approvals[last.request_id].status = "approved"

\* C9: an approve call on a request id whose status is no longer pending is
\* rejected: the stored command is not executed again and the request's
\* status is left unchanged.
C9_ResolvedNotApprovedAgain ==
    [][\A i \in DOMAIN approvals :
         /\ calls' = calls + 1
         /\ last'.endpoint = "approve"
         /\ last'.request_id = i
         /\ approvals[i].status # "pending"
         => /\ last'.status_code \in {400, 401, 503}
            /\ ~last'.run.called
            /\ host_exec' = host_exec
            /\ approvals' = approvals
            /\ inflight' = inflight
      ]_vars

\* C9's case: a second approve of an approved request was answered 400.
C9_Witness ==
    /\ last.endpoint = "approve"
    /\ last.status_code = 400
    /\ last.request_id \in DOMAIN approvals
    /\ approvals[last.request_id].status = "approved"
    /\ Len(host_exec) = 1

C11_EveryDecisionLogged ==
    [][/\ \/ calls' = calls + 1 /\ last'.endpoint = "audit"
          \/ \E w \in Workers : ApproveRunStep(w)
       /\ last'.status_code = 200
       /\ last'.body # <<>>
       => audit_logs' = log_audit(audit_logs, last'.command, last'.body[1])
      ]_vars

\* A direct call whose decision was allowed and whose execution failed: the
\* command could not be tokenized (subprocess.run was never called), or
\* subprocess.run timed out or raised.
ExecutionFailed ==
    /\ RunStep
    /\ last'.run.decision # <<>>
    /\ last'.run.decision[1].allowed
    /\ \/ last'.run.exec = <<>>
       \/ last'.run.outcome # <<>> /\ last'.run.outcome[1].kind \in {"timeout", "exception"}

\* The reject-shaped payload of a failed execution: allowed = false,
\* returncode null, and the reason of the failure that occurred.
FailurePayload ==
    /\ last'.run.payload # <<>>
    /\ ~last'.run.payload[1].allowed
    /\ last'.run.payload[1].returncode = <<>>
    /\ last'.run.payload[1].reason.text =
          IF last'.run.exec = <<>> THEN "Command parsing failed"
          ELSE IF last'.run.outcome[1].kind = "timeout" THEN "Command execution timed out"
          ELSE "Command execution failed"

C13_NonZeroExitIsNotRejection ==
    [][/\ RunStep
       /\ last'.run.outcome # <<>>
       /\ last'.run.outcome[1].kind = "completed"
       /\ last'.run.outcome[1].returncode # 0
       => /\ last'.run.decision[1].allowed
          /\ last'.run.payload[1].allowed
          /\ last'.run.payload[1].risk_score = last'.run.decision[1].risk_score
          /\ last'.run.payload[1].reason = last'.run.decision[1].reason
          /\ last'.run.payload[1].returncode = <<last'.run.outcome[1].returncode>>
          /\ last'.run.payload[1].stdout = last'.run.outcome[1].stdout
          /\ last'.run.payload[1].stderr = last'.run.outcome[1].stderr
          /\ last'.status_code = 200
          /\ last'.body = last'.run.payload
      ]_vars

\* C13's case: a command the semantic judge allowed exited with code 1.
C13_Witness ==
    /\ last.endpoint = "run"
    /\ last.run.invoked
    /\ last.run.outcome = <<Completed(1, "", "err")>>
    /\ last.run.payload[1].allowed
    /\ last.run.payload[1].returncode = <<1>>
    /\ last.run.payload[1].stderr = "err"

\* A step that is one direct call of SentinelAuditor.audit_command.
SemanticStep == calls' = calls + 1 /\ last'.endpoint = "audit_command"

\* The admitted requests that lie within the window that trails time t.
InWindow(history, t) ==
    {i \in DOMAIN history : history[i] >= t - _window_seconds}

\* The decision of a throttled call: a reject at risk 5, the judge not asked.
Throttled ==
    /\ ~last'.run.decision[1].allowed
    /\ last'.run.decision[1].risk_score = 5
    /\ ~last'.run.invoked
    /\ last'.run.judge = <<>>
    /\ runtime'.sentinel_auditor._request_history
          = PruneHistory(runtime.sentinel_auditor._request_history, now')

\* C14: with cap 10 and a 60 s window, once 10 admitted requests lie within
\* the trailing window the next audit_command call returns a throttled reject
\* (risk 5) without invoking the judge and starts a cooldown; every call
\* during the following 30 s cooldown is a throttled reject as well.
C14_ThrottleAndCooldown ==
    [][SemanticStep =>
         /\ Cardinality(InWindow(runtime.sentinel_auditor._request_history, now')) >= 10 =>
               /\ Throttled
               /\ now' < runtime'.sentinel_auditor._last_cooldown_time + 30
               /\ last.run.invoked => runtime'.sentinel_auditor._last_cooldown_time = now'
         /\ now' < runtime.sentinel_auditor._last_cooldown_time + 30 =>
               /\ Throttled
               /\ runtime'.sentinel_auditor._last_cooldown_time
                     = runtime.sentinel_auditor._last_cooldown_time
      ]_vars

\* C14's case: ten calls were admitted, the eleventh started a cooldown and
\* the call after it, within the cooldown, was throttled too.
C14_Witness ==
    /\ last.endpoint = "audit_command"
    /\ Len(runtime.sentinel_auditor._request_history) = 10
    /\ runtime.sentinel_auditor._last_cooldown_time > 0
    /\ runtime.sentinel_auditor._last_cooldown_time < now
    /\ now < runtime.sentinel_auditor._last_cooldown_time + 30
    /\ last.run.decision[1].reason.text = "Sentinel Throttle: Cool-down active."
    /\ ~last.run.invoked

\* C15 as stated: under concurrent audit_command callers on one
\* SentinelAuditor the prune / check / append of the timestamp queue is
\* atomic, so the number of calls admitted to the judge within any trailing
\* window never exceeds the cap.
C15_AdmittedWithinCap ==
    Cardinality(InWindow(runtime.sentinel_auditor._request_history, now))
        <= _max_requests_per_window

\* A direct call of audit_command that was admitted, so the judge was asked.
JudgedStep == SemanticStep /\ last'.run.invoked

\* C16: any failure while invoking the external judge, and any unrecoverable
\* failure parsing its output, makes audit_command return allowed = false at
\* risk_score 10; the failure is never propagated as an exception.
C16_JudgeFailureRejects ==
    [][/\ JudgedStep
       /\ \/ last'.run.judge[1].kind = "raise"
          \/ ~last'.run.judge[1].json
       => /\ last'.run.decision # <<>>
          /\ ~last'.run.decision[1].allowed
          /\ last'.run.decision[1].risk_score = 10
          /\ last'.status_code = 200
          /\ last'.body = <<to_dict(last'.run.decision[1])>>
      ]_vars

\* C16's case: the judge answered with a text that holds no JSON object and
\* the call returned a reject at risk 10.
C16_Witness ==
    /\ last.endpoint = "audit_command"
    /\ last.run.judge = <<JudgeText(FALSE, <<>>, <<>>, <<>>)>>
    /\ ~last.run.decision[1].allowed
    /\ last.run.decision[1].risk_score = 10
    /\ last.run.decision[1].reason.text = "LLM auditor failure"

\* The clear allow of a response: an allowed field that is true.
ClearAllow(response) ==
    response.kind = "text" /\ response.json /\ response.allowed = <<TRUE>>

\* What the code takes for an allow: an allowed that is true, or is not a
\* bool and reads "true" in any letter case, or is missing next to a
\* risk_score below 5.
TakenForAllow(response) ==
    /\ response.kind = "text"
    /\ response.json
    /\ \/ response.allowed = <<TRUE>>
       \/ /\ response.allowed = <<>>
          /\ response.allowed_text # <<>>
          /\ Lower(response.allowed_text[1]) = S_true
       \/ /\ response.allowed = <<>>
          /\ response.allowed_text = <<>>
          /\ response.risk_score # <<>>
          /\ response.risk_score[1] < 5

\* C17 as stated: audit_command returns allowed = true only when the judge's
\* response contains an allowed field that is true; for any other response
\* the decision has allowed = false.
C17_AllowOnlyOnClearAllow ==
    [][JudgedStep => (last'.run.decision[1].allowed <=> ClearAllow(last'.run.judge[1]))]_vars

\* C17, amended: audit_command returns allowed = true only when the judge's
\* response has an allowed field that is true (or a text reading "true"), or
\* has no allowed field and a risk_score below 5; for any other response, and
\* for a call that is throttled, the decision has allowed = false.
C17_AllowOnlyOnAllowOrLowRisk ==
    [][SemanticStep =>
         /\ last'.run.invoked =>
               (last'.run.decision[1].allowed <=> TakenForAllow(last'.run.judge[1]))
         /\ ~last'.run.invoked => ~last'.run.decision[1].allowed
      ]_vars

\* C17's case: a response without an allowed field and with risk_score 2 was
\* taken for an allow.
C17_Witness ==
    /\ last.endpoint = "audit_command"
    /\ last.run.judge = <<JudgeText(TRUE, <<>>, <<2>>, <<"low risk">>)>>
    /\ last.run.decision[1].allowed
    /\ last.run.decision[1].risk_score = 2

\* A call of CommandAuditor.audit whose command was normalized, so that the
\* Hard-Kill Filter ran on it.
Filtered == last.endpoint = "CommandAuditor.audit" /\ last.audit[1].normalized # <<>>

\* Whether check k of the Hard-Kill Filter, taken alone, matches the
\* normalized command: 1 empty command, 2 lockdown allowlist, 3
\* blocked_strings, 4 blocked_paths, 5 blocked_tools, 6 base64-decode-to-shell,
\* 7 network-domain whitelist.
CheckMatches(config, command, k) ==
    CASE k = 1 -> Strip(command) = <<>>
      [] k = 2 -> config.lockdown_mode /\ _is_allowed_in_lockdown(config, command) = "False"
      [] k = 3 -> \E i \in 1..Len(config.blocked_strings) :
                     Contains(Lower(command), Lower(config.blocked_strings[i]))
      [] k = 4 -> \E i \in 1..Len(config.blocked_paths) :
                     Contains(Lower(command), Lower(config.blocked_paths[i]))
      [] k = 5 -> _match_blocked_tool(config, command) # 0
      [] k = 6 -> _contains_base64_shell_exec(Lower(command))
      [] k = 7 -> NetworkCheck(config, command).kind = "decision"
CheckReasons(k) ==
    CASE k = 1 -> {"Empty command is rejected under fail-closed policy."}
      [] k = 2 -> {"Lockdown mode active: command not in allowed_commands."}
      [] k = 3 -> {"Blocked token detected"}
      [] k = 4 -> {"Blocked path access detected"}
      [] k = 5 -> {"Blocked tool detected"}
      [] k = 6 -> {"Obfuscated payload execution pattern detected: base64 to shell."}
      [] k = 7 -> {"Network command without explicit URL/domain is rejected.",
                   "Could not parse domain from network target",
                   "Outbound network domain not whitelisted"}
FirstMatching(config, command) ==
    {k \in 1..7 : /\ CheckMatches(config, command, k)
                  /\ \A j \in 1..(k - 1) : ~CheckMatches(config, command, j)}

\* C18: the Hard-Kill Filter applies its checks in the order empty command,
\* lockdown allowlist, blocked_strings, blocked_paths, blocked_tools,
\* base64-decode-to-shell, network-domain whitelist, and returns the rejection
\* (risk_score 10) of the first check that matches; a command with both a
\* blocked string and a network URL is rejected with the blocked-string
\* reason, not the network reason.
C18_FirstMatchingCheckRejects ==
    Filtered =>
        /\ \A k \in FirstMatching(runtime.constitution, last.audit[1].normalized[1]) :
              /\ last.audit[1].hard_kill = "decision"
              /\ ~last.audit[1].decision.allowed
              /\ last.audit[1].decision.risk_score = 10
              /\ last.audit[1].decision.reason.text \in CheckReasons(k)
        /\ last.command = S_curl_blocked_token /\ ~runtime.constitution.lockdown_mode
              => last.audit[1].decision.reason.text = "Blocked token detected"
C18_Witness ==
    /\ Filtered
    /\ last.command = S_curl_blocked_token
    /\ CheckMatches(runtime.constitution, last.audit[1].normalized[1], 3)
    /\ CheckMatches(runtime.constitution, last.audit[1].normalized[1], 7)
    /\ last.audit[1].decision.reason.text = "Blocked token detected"

\* The shell-control metacharacters: |, ||, &&, ;, backtick, <, >, $( and
\* newline.
HasShellControl(command) ==
    \/ \E i \in 1..Len(command) : command[i] \in {124, 59, BACKTICK, 60, 62, LF}
    \/ Contains(command, <<38, 38>>)
    \/ Contains(command, <<36, 40>>)
AcceptedByAllowlist ==
    /\ Filtered
    /\ last.audit[1].allowlisted = "True"
    /\ last.audit[1].decision.allowed
    /\ last.audit[1].decision.reason.text = "Command explicitly allowed by policy."

\* C19: with lockdown_mode on, a command is accepted by the allowlist only if
\* it contains no shell-control metacharacter and matches an allowed_commands
\* entry; with allowed_commands = ["git status"], auditing "git status" yields
\* allow and auditing "git status; rm -rf /" yields reject.
C19_LockdownAllowlist ==
    last.endpoint = "CommandAuditor.audit" /\ runtime.constitution.lockdown_mode =>
        /\ AcceptedByAllowlist =>
              /\ ~HasShellControl(last.command)
              /\ _is_allowed_in_lockdown(runtime.constitution,
                                         last.audit[1].normalized[1]) = "True"
        /\ last.command = S_git_status =>
              last.audit[1].kind = "decision" /\ last.audit[1].decision.allowed
        /\ last.command = S_git_status_chain =>
              last.audit[1].kind = "decision" /\ ~last.audit[1].decision.allowed

\* The literal http(s) URLs of a command, and whether the hostname of one
\* equals, or is a subdomain of, an entry of whitelisted_domains.
LiteralUrls(command) == FindUrls(command, 1)
UrlWhitelisted(config, url) ==
    /\ _extract_domain(url).ok
    /\ _extract_domain(url).val # <<>>
    /\ _is_whitelisted_domain(config, _extract_domain(url).val)
AllUrlsWhitelisted(config, command) ==
    /\ LiteralUrls(command) # <<>>
    /\ \A i \in 1..Len(LiteralUrls(command)) : UrlWhitelisted(config, LiteralUrls(command)[i])
ReachesNetworkCheck ==
    /\ Filtered
    /\ \A k \in 1..6 : ~CheckMatches(runtime.constitution, last.audit[1].normalized[1], k)
    /\ _contains_network_tool(runtime.constitution, last.audit[1].normalized[1])

\* C20: when the command's resolved executable is in blocked_network_tools,
\* the filter rejects unless the command contains at least one literal http(s)
\* URL and every such URL's hostname equals, or is a subdomain of, an entry of
\* whitelisted_domains; a command whose URLs are all whitelisted is not
\* rejected by the network check.
C20_NetworkWhitelist ==
    ReachesNetworkCheck =>
        IF AllUrlsWhitelisted(runtime.constitution, last.audit[1].normalized[1])
        THEN last.audit[1].hard_kill = "none"
        ELSE /\ last.audit[1].hard_kill = "decision"
             /\ ~last.audit[1].decision.allowed
             /\ last.audit[1].decision.reason.text \in CheckReasons(7)

\* C21: normalization is idempotent: normalizing the result of normalizing a
\* command yields the same string as normalizing it once (so the output never
\* still contains a decodable escape, an ANSI-C quoted segment or a
\* zero-width character).
C21_NormalizationIdempotent ==
    last.endpoint = "_normalize_command again" =>
        /\ last.status_code = 200
        /\ last.body[1] = last.command
        /\ ZWSP \notin {last.command[i] : i \in 1..Len(last.command)}

\* The statuses of a PendingRequest, and a step that keeps every row of the
\* approvals table and changes a status only from pending to approved or
\* rejected.
Statuses == {"pending", "approved", "rejected"}
RowsKept ==
    \A i \in DOMAIN approvals :
        /\ i \in DOMAIN approvals'
        /\ \/ approvals'[i].status = approvals[i].status
           \/ approvals[i].status = "pending" /\ approvals'[i].status \in {"approved", "rejected"}

\* C22: in every reachable state each row's status is one of pending,
\* approved, rejected; the only status changes that occur are pending to
\* approved and pending to rejected; and no row is ever deleted.
C22_ApprovalLifecycle ==
    /\ [](\A i \in DOMAIN approvals : approvals[i].status \in Statuses)
    /\ [][RowsKept]_vars
C22_Witness ==
    /\ last.endpoint = "approve"
    /\ last.status_code = 200
    /\ approvals[last.request_id].status = "approved"
    /\ \E i \in DOMAIN approvals : approvals[i].status = "pending"

\* A request to /audit on the store that can fail, whose run returned a
\* payload.
AuditAnswered ==
    /\ last.endpoint = "audit"
    /\ "fault" \in DOMAIN last
    /\ last.run.payload # <<>>

\* C23: a failure while writing an audit record (the Runtime's audit log or
\* the store's audit_logs row) never changes the allow/deny outcome returned
\* to the caller: the caller receives the same decision as when the write
\* succeeds.
C23_LogFailureKeepsOutcome ==
    AuditAnswered /\ last.fault # "insert_approval" =>
        /\ last.status_code = 200
        /\ last.body[1].allowed = last.run.payload[1].allowed
        /\ last.body[1].risk_score = last.run.payload[1].risk_score

\* C24: if recording the PendingRequest for a review outcome fails, the
\* request aborts with a server error and the command is not executed; a
\* persistence failure never results in a command being authorized.
C24_PendingFailureAborts ==
    AuditAnswered /\ last.fault = "insert_approval" =>
        /\ last.status_code = 500
        /\ last.body = <<>>
        /\ last.created = <<>>
        /\ last.run.exec = <<>>
        /\ ~last.run.payload[1].allowed
C24_Witness ==
    /\ AuditAnswered
    /\ last.fault = "insert_approval"
    /\ last.run.payload[1].status = <<"review_required">>
    /\ last.status_code = 500

\* C25: every AuditDecision produced by a decision layer (the Runtime's policy
\* outcomes, the Hard-Kill Filter, the Command Auditor, the Semantic Auditor)
\* and every payload returned by run has an integer risk_score within [0,10].
C25_RiskScoreInRange ==
    last.endpoint = "run" =>
        /\ \A i \in 1..Len(last.run.decision) : last.run.decision[i].risk_score \in 0..10
        /\ \A i \in 1..Len(last.run.audit) :
              last.run.audit[i].kind = "decision" =>
                  last.run.audit[i].decision.risk_score \in 0..10
        /\ \A i \in 1..Len(last.run.payload) : last.run.payload[i].risk_score \in 0..10
        /\ \A i \in 1..Len(last.body) : last.body[i].risk_score \in 0..10
C25_Witness ==
    /\ last.endpoint = "run"
    /\ last.run.judge = <<JudgeText(TRUE, <<TRUE>>, <<12>>, <<"out of range">>)>>
    /\ last.run.decision[1].risk_score = 10
    /\ last.run.decision[1].allowed

\* The rules of the policy whose regex is valid and whose pattern matches the
\* stripped command at its start, and among them those with a non-empty
\* pattern.
MatchingRules(policy, command) ==
    {k \in 1..Len(policy.rules) :
        /\ ReMatch(policy.rules[k].pattern, Strip(command)).ok
        /\ StartsWith(Strip(command), policy.rules[k].pattern)}
MatchingNonEmptyRules(policy, command) ==
    {k \in MatchingRules(policy, command) : policy.rules[k].pattern # <<>>}
\* The result is the first rule of `matching`, or the default when there is
\* none.
FirstRuleOrDefault(policy, matching, result) ==
    /\ \A k \in matching :
          (\A j \in matching : k <= j) =>
              /\ result.action = policy.rules[k].action
              /\ result.rule_name = policy.rules[k].name
              /\ result.reason = policy.rules[k].description
    /\ matching = {} =>
          /\ result.action = policy.default_action
          /\ result.rule_name = S_DefaultPolicy
          /\ policy = NoPolicyFile => result.action = "block"

\* C26 (as stated): evaluate returns the action, name and reason of the first
\* rule in file order whose pattern matches the stripped raw command at its
\* start, skipping rules whose regex is invalid; when no rule matches
\* (including when the policy file is missing) it returns the default action,
\* block unless configured otherwise, with rule name "Default Policy".
C26_FirstMatchingRule ==
    last.endpoint = "evaluate" =>
        FirstRuleOrDefault(runtime.policy, MatchingRules(runtime.policy, last.command),
                           last.run.policy[1])

\* C26 (amended): as stated, with the rules whose pattern is empty skipped
\* too.
C26_FirstMatchingNonEmptyRule ==
    last.endpoint = "evaluate" =>
        FirstRuleOrDefault(runtime.policy,
                           MatchingNonEmptyRules(runtime.policy, last.command),
                           last.run.policy[1])
C26_Witness ==
    /\ last.endpoint = "evaluate"
    /\ Len(runtime.policy.rules) = 2
    /\ runtime.policy.rules[1].pattern = <<>>
    /\ 2 \in MatchingNonEmptyRules(runtime.policy, last.command)
    /\ last.run.policy[1].rule_name = runtime.policy.rules[2].name

\* A request with header tok that auth refuses, a request to one of the four
\* guarded endpoints, and a step that refuses a request without having served
\* it: no audit, no execution, no read and no write of the store.
BadToken(tok) == auth.requires_auth /\ (tok # auth.token \/ auth.token = <<>>)
GuardedRequestBy(tok) ==
    \/ AuditCommandBy(tok)
    \/ AuditOnlyBy(tok)
    \/ ListPendingBy(tok)
    \/ \E w \in Workers : ApproveCheckBy(w, tok)
RefusedUnserved ==
    /\ last'.status_code \in {401, 503}
    /\ last'.run = NoRun
    /\ last'.audit = <<>>
    /\ last'.req = <<>>
    /\ last'.pending = {}
    /\ last'.created = <<>>
    /\ last'.body = <<>>
    /\ UNCHANGED <<runtime, _AUDIT_LOGGER, audit_log_file, approvals, audit_logs,
                   host_exec, inflight>>

\* C27: when auth is enabled, /audit, /audit-only, /pending and /approve
\* refuse a request whose token header does not equal the configured shared
\* secret (or when no secret is configured) before performing any audit,
\* command execution, store read or store write; only /health is served
\* without a token.
C27_AuthBeforeAnything ==
    [][/\ \A tok \in Tokens : BadToken(tok) /\ GuardedRequestBy(tok) => RefusedUnserved
       /\ HealthCheck => last'.status_code = 200]_vars
C27_Witness ==
    /\ auth.requires_auth
    /\ auth.token = Secret
    /\ last.endpoint = "approve"
    /\ last.status_code = 401
    /\ last.request_id \in DOMAIN approvals
    /\ approvals[last.request_id].status = "pending"

\* A call of run_intercepted_command that does not bypass the policy and for
\* which the Policy Rule Engine's action is none of allow, block, review.
SentToAuditor ==
    /\ last.endpoint = "run"
    /\ last.run.called
    /\ ~last.run.bypass_policy
    /\ last.run.policy # <<>>
    /\ last.run.policy[1].action \notin {"allow", "block", "review"}

\* C28: when not bypassing and the Policy Rule Engine's action is none of
\* allow, block, review, the Runtime's decision is exactly the decision
\* returned by CommandAuditor.audit on the command (the deterministic layers'
\* decision, or else the Semantic Auditor's), and execution happens only if
\* that decision is allowed.
C28_AuditorDecides ==
    SentToAuditor =>
        /\ last.run.audit # <<>>
        /\ last.run.audit[1].kind = "raise" <=> last.run.raised
        /\ last.run.raised => last.run.exec = <<>>
        /\ ~last.run.raised =>
              /\ last.run.decision = <<last.run.audit[1].decision>>
              /\ CommandAuditorAudit(runtime, last.command).kind = "decision" =>
                    last.run.decision[1] = CommandAuditorAudit(runtime, last.command).decision
              /\ CommandAuditorAudit(runtime, last.command).kind = "none" => last.run.judged
              /\ last.run.exec # <<>> => last.run.decision[1].allowed
C28_Witness ==
    /\ SentToAuditor
    /\ last.run.judged
    /\ last.run.decision[1].allowed
    /\ last.run.decision[1].reason.text = "harmless"
    /\ last.run.exec # <<>>

\* A call of _invoke_agent that has ended, and the quota/rate errors.
InvokeEnded == last.endpoint = "_invoke_agent"
QuotaErrors == {"429", "RESOURCE_EXHAUSTED"}

\* C29: if the judge invocation fails with an error that is not a quota/rate
\* error, the Semantic Auditor fails immediately: no further invocation
\* attempt is made for that call.
C29_OtherErrorsFailAtOnce ==
    InvokeEnded =>
        \A i \in 1..Len(last.invoke.calls) :
            last.invoke.calls[i].outcome = "error" =>
                /\ i = Len(last.invoke.calls)
                /\ last.invoke.kind = "raise"

\* C30: for one call, _invoke_agent makes at most max_retries + 1 = 4
\* invocation attempts, retries on every quota/rate error from the judge (429
\* or RESOURCE_EXHAUSTED) with exponential backoff while retries remain, and
\* always terminates by returning the judge's text or raising the last error.
C30_BoundedRetries ==
    InvokeEnded =>
        /\ last.invoke.attempts <= max_retries + 1
        /\ \A i \in 1..Len(last.invoke.calls) :
              /\ last.invoke.calls[i].outcome \in QuotaErrors
              /\ last.invoke.calls[i].attempt < max_retries
              => /\ \E j \in 1..Len(last.invoke.sleeps) :
                       /\ last.invoke.sleeps[j].attempt = last.invoke.calls[i].attempt
                       /\ last.invoke.sleeps[j].seconds = (2 ^ last.invoke.calls[i].attempt) + 1
                 /\ last.invoke.attempts > last.invoke.calls[i].attempt + 1
        /\ last.invoke.kind \in {"text", "raise"}

\* A call of audit_command whose judge returned a text holding a JSON object.
ParsedObject ==
    /\ last.endpoint = "audit_command"
    /\ last.run.invoked
    /\ last.run.judge[1].kind = "text"
    /\ last.run.judge[1].json

\* The object of the judge has no allowed key at all.
LacksAllowed(response) == response.allowed = <<>> /\ response.allowed_text = <<>>

\* C31: when the judge's JSON object lacks allowed but has risk_score, allowed
\* is taken as risk_score < 5; a missing reason is replaced by the generic
\* string "Semantic analysis completed (implied reason)."; when both allowed
\* and risk_score are missing the decision is allowed = false at risk_score 10.
C31_DefaultsOfMissingKeys ==
    ParsedObject =>
        /\ (LacksAllowed(last.run.judge[1]) /\ last.run.judge[1].risk_score # <<>>) =>
               (last.run.decision[1].allowed <=> last.run.judge[1].risk_score[1] < 5)
        /\ last.run.judge[1].reason = <<>> =>
               last.run.decision[1].reason.text =
                   "Semantic analysis completed (implied reason)."
        /\ (LacksAllowed(last.run.judge[1]) /\ last.run.judge[1].risk_score = <<>>) =>
               /\ ~last.run.decision[1].allowed
               /\ last.run.decision[1].risk_score = 10

\* C31's case: an object with no key at all was answered by a rejection at
\* risk 10 with the generic reason.
C31_Witness ==
    /\ ParsedObject
    /\ last.run.judge[1] = JudgeText(TRUE, <<>>, <<>>, <<>>)
    /\ ~last.run.decision[1].allowed
    /\ last.run.decision[1].risk_score = 10
    /\ last.run.decision[1].reason.text = "Semantic analysis completed (implied reason)."

\* A completed direct call of run_intercepted_command.
RanCommand == last.endpoint = "run" /\ last.run.called

\* What subprocess.run is given for a raw command: the string itself with
\* shell=True when it holds a shell operator, else its tokens.
HostCallOf(raw) ==
    IF AnyShellOperator(raw)
    THEN [args |-> <<raw>>, shell |-> TRUE]
    ELSE [args |-> ShlexSplit(raw).val, shell |-> FALSE]

\* C32: what is handed to the host execution facility is always made of the
\* caller's raw command, never of its normalized form; the Hard-Kill Filter,
\* the lockdown allowlist and the semantic judge are given the normalized
\* form, and the Policy Rule Engine is given the raw form (which it strips).
C32_RawIsExecutedNormalizedIsAudited ==
    RanCommand =>
        /\ last.run.exec # <<>> => last.run.exec[1] = HostCallOf(last.run.cmd_string)
        /\ last.run.policy # <<>> =>
               last.run.policy[1] = evaluate(runtime.policy, last.run.cmd_string)
        /\ (last.run.audit # <<>> /\ last.run.audit[1].normalized # <<>>) =>
               /\ last.run.audit[1].normalized[1] =
                      _normalize_command(last.run.cmd_string).val
               /\ last.run.audit[1].hard_kill =
                      _hard_kill_filter(Constitution, last.run.audit[1].normalized[1]).kind
               /\ last.run.audit[1].allowlisted \in
                      {"skipped",
                       _is_allowed_in_lockdown(Constitution,
                                               last.run.audit[1].normalized[1])}
        /\ last.run.judged =>
               last.run.prompt = <<_normalize_command(last.run.cmd_string).val>>

\* C32's case: "ls \x2dl" was allowlisted as its normalized form "ls -l" and
\* executed as the tokens of the raw string, ls and x2dl.
C32_Witness ==
    /\ RanCommand
    /\ last.run.cmd_string = S_ls_x2dl
    /\ last.run.audit # <<>>
    /\ last.run.audit[1].normalized = <<S_ls \o Str(<<" ", "-", "l">>)>>
    /\ last.run.audit[1].allowlisted = "True"
    /\ last.run.exec = <<[args |-> <<S_ls, Str(<<"x", "2", "d", "l">>)>>, shell |-> FALSE]>>

\* The entries of allowed_commands that hold a space and that the lowered,
\* stripped command extends, and the text that follows such an entry.
ExtendedEntries(config, command) ==
    {k \in 1..Len(config.allowed_commands) :
        /\ \E i \in 1..Len(config.allowed_commands[k]) :
              config.allowed_commands[k][i] = SPACE
        /\ StartsWith(Lower(Strip(command)), Lower(config.allowed_commands[k]))
        /\ Lower(Strip(command)) # Lower(config.allowed_commands[k])}
TextAfter(config, command, k) ==
    From(Lower(Strip(command)), Len(config.allowed_commands[k]) + 1)

\* A shell-control character: one of ; & | ` < >, a line break, or "$(".
ShellControlIn(text) ==
    \/ \E i \in 1..Len(text) : text[i] \in {59, 38, 124, BACKTICK, 60, 62, LF, CR}
    \/ Contains(text, <<36, 40>>)

\* C33: a command that extends a multi-word allowed_commands entry is
\* allowlisted only if the text following the entry begins with whitespace and
\* contains no shell-control character; with the entry "git status",
\* "git status -s" is allowlisted and "git statusx" is not.
C33_ExtensionNeedsWhitespace ==
    (Filtered /\ runtime.constitution.allowed_commands = <<S_git_status>>) =>
        /\ \A k \in ExtendedEntries(runtime.constitution, last.audit[1].normalized[1]) :
              last.audit[1].allowlisted = "True" =>
                  /\ IsSpace(TextAfter(runtime.constitution,
                                       last.audit[1].normalized[1], k)[1])
                  /\ ~ShellControlIn(TextAfter(runtime.constitution,
                                               last.audit[1].normalized[1], k))
        /\ last.command = S_git_status_s => last.audit[1].allowlisted = "True"
        /\ last.command = S_git_statusx => last.audit[1].allowlisted # "True"

\* A step that answers POST /approve/{request_id} for an id that has no row.
ApproveOfUnknownId ==
    /\ last'.endpoint = "approve"
    /\ last'.request_id \notin DOMAIN approvals

\* C34: a resolve operation on a request id that does not exist in the
\* approvals collection is rejected (resolve_request returns False, /approve
\* answers 404 once the token is accepted, and never 200) and leaves the
\* approvals collection unchanged: no row is created or modified.
C34_UnknownIdIsRejected ==
    /\ [](/\ ~resolve_request(approvals, UnknownId, "approved").result
          /\ resolve_request(approvals, UnknownId, "approved").approvals = approvals)
    /\ [][ApproveOfUnknownId =>
            /\ approvals' = approvals
            /\ host_exec' = host_exec
            /\ last'.status_code \in {401, 503, 404}
            /\ ~auth.requires_auth => last'.status_code = 404
         ]_vars

\* C34's case: /approve for an id without a row was answered 404 while the
\* table held a pending row.
C34_Witness ==
    /\ last.endpoint = "approve"
    /\ last.request_id = UnknownId
    /\ last.status_code = 404
    /\ \E i \in DOMAIN approvals : approvals[i].status = "pending"

\* C35: for any PendingRequest id and any interleaving of concurrent approve
\* calls on it, the stored command is executed under policy bypass at most
\* once: a bypassed run that calls subprocess.run is the run of a request that
\* no other approve call has run and resolved before.
C35_ExecutedAtMostOnce ==
    [][\A w \in Workers :
          (ApproveRunStep(w) /\ last'.run.exec # <<>>) =>
              approvals[last'.request_id].status = "pending"
      ]_vars

\* The checks of the Hard-Kill Filter for blocked strings, blocked paths,
\* blocked tools, base64-to-shell and network targets (checks 3 to 7), as the
\* filter makes them, that match the normalized command.
HardKillMatches(config, command) == {k \in 3..7 : CheckMatches(config, command, k)}

\* C36: CommandAuditor.audit returns the allowlist allow (risk 0, without
\* consulting the judge) only for commands on which the Hard-Kill Filter
\* returned no rejection: a command that matches allowed_commands but on which
\* the filter finds a blocked string, a blocked path, a blocked tool, a
\* base64-to-shell pattern or a non-whitelisted network target is rejected.
C36_AllowlistAfterHardKill ==
    /\ [](Filtered =>
            /\ AcceptedByAllowlist =>
                  /\ last.audit[1].hard_kill = "none"
                  /\ last.audit[1].decision.risk_score = 0
                  /\ HardKillMatches(runtime.constitution,
                                     last.audit[1].normalized[1]) = {}
            /\ (/\ _is_allowed_in_lockdown(runtime.constitution,
                                           last.audit[1].normalized[1]) = "True"
                /\ HardKillMatches(runtime.constitution,
                                   last.audit[1].normalized[1]) # {}) =>
                  /\ last.audit[1].kind = "decision"
                  /\ ~last.audit[1].decision.allowed
                  /\ last.audit[1].decision.risk_score = 10)
    /\ [][AcceptedByAllowlist' => runtime'.sentinel_auditor = runtime.sentinel_auditor]_vars

\* C36's case: in lockdown with allowed_commands = ["git status"], the command
\* "git status /etc/x" matches the allowlist and is rejected for its blocked
\* path.
C36_Witness ==
    /\ Filtered
    /\ last.command = S_git_status_etc
    /\ _is_allowed_in_lockdown(runtime.constitution, last.audit[1].normalized[1]) = "True"
    /\ ~last.audit[1].decision.allowed
    /\ last.audit[1].decision.reason.text = "Blocked path access detected"

\* A call of CommandAuditor.audit by an auditor whose lockdown_mode is on.
AuditedInLockdown ==
    last.endpoint = "CommandAuditor.audit" /\ runtime.constitution.lockdown_mode

\* C37: when lockdown_mode is on, CommandAuditor.audit resolves every command
\* deterministically: a decision it returns is a rejection of the Hard-Kill
\* Filter or the allow of the allowlist, and no call invokes the semantic
\* auditor, whatever the command.
C37_LockdownNeverJudges ==
    /\ [](AuditedInLockdown /\ last.audit[1].kind # "raise" =>
            /\ last.audit[1].kind = "decision"
            /\ \/ /\ last.audit[1].hard_kill = "decision"
                  /\ ~last.audit[1].decision.allowed
                  /\ last.audit[1].decision.risk_score = 10
               \/ AcceptedByAllowlist)
    /\ [][AuditedInLockdown' => runtime'.sentinel_auditor = runtime.sentinel_auditor]_vars

\* C37's case: in lockdown with a semantic auditor at hand, "ls" (not in
\* allowed_commands, and matched by no other check) was rejected by the
\* lockdown check and the history of the semantic auditor is still empty.
C37_Witness ==
    /\ AuditedInLockdown
    /\ runtime.llm_auditor = "SentinelAuditor"
    /\ last.command = S_ls
    /\ last.audit[1].decision.reason.text
           = "Lockdown mode active: command not in allowed_commands."
    /\ runtime.sentinel_auditor._request_history = <<>>

\* The cooldown is active at the time of the call that a step makes.
CooldownActive == now' < runtime.sentinel_auditor._last_cooldown_time + _cooldown_seconds

\* C38: a throttled audit_command call (cooldown active, or limit reached)
\* adds no timestamp to the request window, and calls made during an active
\* cooldown do not restart or extend that cooldown: the cooldown start time
\* changes only when a call finds the window full while no cooldown is active.
C38_ThrottledCallsLeaveTheLimiter ==
    [][SemanticStep =>
         /\ ~last'.run.invoked =>
               runtime'.sentinel_auditor._request_history
                   = PruneHistory(runtime.sentinel_auditor._request_history, now')
         /\ CooldownActive =>
               /\ ~last'.run.invoked
               /\ runtime'.sentinel_auditor._last_cooldown_time
                      = runtime.sentinel_auditor._last_cooldown_time
         /\ runtime'.sentinel_auditor._last_cooldown_time
                # runtime.sentinel_auditor._last_cooldown_time =>
               /\ ~CooldownActive
               /\ Len(PruneHistory(runtime.sentinel_auditor._request_history, now'))
                      >= _max_requests_per_window
               /\ runtime'.sentinel_auditor._last_cooldown_time = now'
      ]_vars

\* C38's case: a call made 10 seconds or more into a cooldown was throttled,
\* the cooldown still starts where it started and the window holds the ten
\* admitted timestamps.
C38_Witness ==
    /\ last.endpoint = "audit_command"
    /\ ~last.run.invoked
    /\ last.run.decision[1].reason.text = "Sentinel Throttle: Cool-down active."
    /\ now >= runtime.sentinel_auditor._last_cooldown_time + 10
    /\ Len(runtime.sentinel_auditor._request_history) = _max_requests_per_window

\* The last call of audit_command was throttled; it was admitted to the judge.
LastThrottled == last.endpoint = "audit_command" /\ ~last.run.invoked
LastAdmitted == last.endpoint = "audit_command" /\ last.run.invoked

\* C39: the rate limiter always recovers. A call made when the cooldown
\* period has elapsed and fewer than _max_requests_per_window admitted
\* timestamps remain in the trailing window is admitted to the judge; and
\* while time goes on and calls go on, a throttled call is always followed by
\* an admitted one: no sequence of calls leaves the limiter throttling for
\* ever.
C39_LimiterRecovers ==
    /\ [][(/\ RecoveryAudit
           /\ ~(now < runtime.sentinel_auditor._last_cooldown_time + _cooldown_seconds)
           /\ Len(PruneHistory(runtime.sentinel_auditor._request_history, now))
                  < _max_requests_per_window)
          => last'.run.invoked]_vars
    /\ (LastThrottled ~> LastAdmitted)

\* C39's case: a call was admitted while no cooldown was active and the
\* window held nine timestamps, the oldest of them more than 30 seconds old.
C39_Witness ==
    /\ LastAdmitted
    /\ runtime.sentinel_auditor._last_cooldown_time = 0
    /\ Len(runtime.sentinel_auditor._request_history) = _max_requests_per_window
    /\ runtime.sentinel_auditor._request_history[1] < now - _cooldown_seconds
    /\ runtime.sentinel_auditor._request_history[_max_requests_per_window] = now

\* C40: during approve, the request's status changes to approved only after
\* the bypassed run has returned a result (the step that changes it is the
\* second half of an approve of that request, whose run returned the payload
\* that is sent back); if that run raises, the request remains as it was
\* (pending, unless another approve resolved it meanwhile) and the caller
\* receives status 500 instead of a decision.
C40_ApprovedOnlyAfterRunReturned ==
    [][/\ \A i \in DOMAIN approvals :
             (approvals[i].status # "approved" /\ approvals'[i].status = "approved") =>
                 /\ \E w \in Workers : ApproveRunStep(w) /\ inflight[w][1].id = i
                 /\ last'.endpoint = "approve"
                 /\ last'.request_id = i
                 /\ last'.run.called /\ last'.run.bypass_policy
                 /\ ~last'.run.raised
                 /\ last'.run.payload # <<>>
                 /\ last'.body = last'.run.payload
                 /\ last'.status_code = 200
       /\ ((\E w \in Workers : ApproveRunStep(w)) /\ last'.run.raised) =>
             /\ approvals' = approvals
             /\ host_exec' = host_exec
             /\ last'.status_code = 500
             /\ last'.body = <<>>
      ]_vars

\* C40's case: the run of an approve raised, the caller got status 500 and
\* the request is still pending.
C40_Witness ==
    /\ last.endpoint = "approve"
    /\ last.run.called
    /\ last.run.raised
    /\ last.status_code = 500
    /\ last.request_id \in DOMAIN approvals
    /\ approvals[last.request_id].status = "pending"

=============================================================================
